---- MODULE Spec2Model ----
(***************************************************************************)
(* Meeting Notes & Action Item Agent: the seven node functions of          *)
(* nodes.py run over the per-invocation state bag (ctx.memory), routed by  *)
(* the edges of agent.py.                                                  *)
(*                                                                         *)
(* Representation of Python values:                                        *)
(*   - a memory slot is [tag, v]: tag "absent" (key not in the bag),       *)
(*     "none" (None) or "val";                                             *)
(*   - strings whose characters matter (transcript, provider alias, raw    *)
(*     LLM text) are sequences; opaque strings are TLA+ strings;           *)
(*   - a JSON value is a record [t, s, n, b, l, li, m] with t its type;    *)
(*   - a dict is a function from key strings to JSON values.               *)
(***************************************************************************)
EXTENDS Integers, Sequences, FiniteSets, TLC

VARIABLES
    input_data,    \* the invocation's input, as the bag held it at the start
    memory,        \* ctx.memory, the state bag
    node,          \* the node to run next, or the node the run stopped at
    run_state,     \* "running", "completed" or "failed"
    path,          \* the nodes run so far, each with its outcome
    llm_calls,     \* calls of ctx.llm.complete
    llm_request,   \* the arguments of the last such call
    tool_calls,    \* calls of ctx.tools.call
    tool_reply,    \* what the last such call did: raised or returned
    final_writes,  \* writes of final_output
    agent          \* the MeetingNotesAgent instance and the calls made on it

vars == <<input_data, memory, node, run_state, path, llm_calls, llm_request,
          tool_calls, tool_reply, final_writes, agent>>

(***************************************************************************)
(* Program constants and model bounds                                      *)
(***************************************************************************)
\* nodes.py:60  "if len(transcript) < 50"
MinTranscriptLen == 50
\* nodes.py:338  raw[:200]
SnippetLen == 200
\* largest number of whitespace characters put around an input transcript
MaxPad == 1
\* transcripts are drawn with MinTranscriptLen - 1 .. MinTranscriptLen + MaxOver
\* non-blank characters
MaxOver == 1

(***************************************************************************)
(* Strings as sequences of characters                                      *)
(***************************************************************************)
Rep(c, n) == [i \in 1..n |-> c]

\* the characters str.strip() removes
Whitespace == {" ", "\n", "\t"}

RECURSIVE LStrip(_)
LStrip(s) ==
    IF s = <<>> THEN <<>>
    ELSE IF Head(s) \in Whitespace THEN LStrip(Tail(s)) ELSE s

RECURSIVE RStrip(_)
RStrip(s) ==
    IF s = <<>> THEN <<>>
    ELSE IF s[Len(s)] \in Whitespace THEN RStrip(SubSeq(s, 1, Len(s) - 1)) ELSE s

\* str.strip()
Strip(s) == RStrip(LStrip(s))

\* str.lower() on one character (the letters the aliases use)
LowerChar(c) ==
    CASE c = "A" -> "a" [] c = "C" -> "c" [] c = "G" -> "g" [] c = "E" -> "e"
      [] c = "M" -> "m" [] c = "I" -> "i" [] c = "N" -> "n" [] c = "P" -> "p"
      [] c = "T" -> "t" [] OTHER -> c

\* str.lower()
Lower(s) == [i \in 1..Len(s) |-> LowerChar(s[i])]

(***************************************************************************)
(* Memory slots                                                            *)
(***************************************************************************)
Absent(d) == [tag |-> "absent", v |-> d]
None(d)   == [tag |-> "none", v |-> d]
Val(x)    == [tag |-> "val", v |-> x]

\* ctx.memory.get(key, default): the default only when the key is absent
Get(slot, default) == IF slot.tag = "absent" THEN default ELSE slot

\* ctx.memory.get(key): None when the key is absent
GetOrNone(slot) == IF slot.tag = "absent" THEN None(slot.v) ELSE slot

(***************************************************************************)
(* Error messages: kind names the format string, n and snip its arguments  *)
(***************************************************************************)
Msg(kind, n, snip) == [kind |-> kind, n |-> n, snip |-> snip]
NoMsg == Msg("", 0, <<>>)

(***************************************************************************)
(* config.py                                                               *)
(***************************************************************************)
anthropic == <<"a", "n", "t", "h", "r", "o", "p", "i", "c">>
claude    == <<"c", "l", "a", "u", "d", "e">>
gemini    == <<"g", "e", "m", "i", "n", "i">>
google    == <<"g", "o", "o", "g", "l", "e">>

ClaudeModel == "claude-sonnet-4-5-20250929"
GeminiModel == "gemini/gemini-1.5-pro-latest"

\* AgentConfig.model
default_config_model == ClaudeModel

MODEL_REGISTRY ==
    [p \in {anthropic, claude, gemini, google} |->
        IF p \in {anthropic, claude} THEN ClaudeModel ELSE GeminiModel]

\* dict.get(key, default) on the registry
RegistryGet(p, default) ==
    IF p \in DOMAIN MODEL_REGISTRY THEN MODEL_REGISTRY[p] ELSE default

(***************************************************************************)
(* Python truthiness of a slot holding a string (sequence or TLA+ string)  *)
(***************************************************************************)
TruthySeq(slot) == slot.tag = "val" /\ slot.v # <<>>
TruthyStr(slot) == slot.tag = "val" /\ slot.v # ""
\* NoMsg stands for the empty string
TruthyMsg(slot) == slot.tag = "val" /\ slot.v # NoMsg

(***************************************************************************)
(* validate_input                                                          *)
(***************************************************************************)
\* a provider alias looked up as it is written
ResolveProvider_case_sensitive(llm_provider) ==
    LET alias == IF TruthySeq(llm_provider) THEN llm_provider.v ELSE anthropic
    IN  IF alias \notin DOMAIN MODEL_REGISTRY THEN anthropic ELSE alias

\* the provider resolution of validate_input
ResolveProvider(llm_provider) ==
    LET alias    == IF TruthySeq(llm_provider) THEN llm_provider.v ELSE anthropic
        resolved == Lower(alias)
    IN  IF resolved \notin DOMAIN MODEL_REGISTRY THEN anthropic ELSE resolved

\* the placeholder only for None
OrDefault_none_only(slot, placeholder) ==
    IF slot.tag = "val" THEN slot ELSE Val(placeholder)

\* x or "placeholder"
OrDefault(slot, placeholder) == IF TruthyStr(slot) THEN slot ELSE Val(placeholder)

\* a minimum length that is one too small
TooShort_off_by_one(stripped) == Len(stripped) < MinTranscriptLen - 1

\* len(transcript) < 50
TooShort(stripped) == Len(stripped) < MinTranscriptLen

\* the node with the name and date normalised before the transcript is
\* looked at
validate_input_normalizes_first(mem) ==
    LET transcript   == Get(mem.transcript, Val(<<>>))
        meeting_name == Get(mem.meeting_name, Val("Untitled Meeting"))
        meeting_date == Get(mem.meeting_date, Val("Unknown Date"))
        slack_channel == GetOrNone(mem.slack_channel)
        llm_provider == Get(mem.llm_provider, Val(anthropic))
        stripped     == Strip(transcript.v)
        named        == [mem EXCEPT
                           !.meeting_name = OrDefault(meeting_name, "Untitled Meeting"),
                           !.meeting_date = OrDefault(meeting_date, "Unknown Date")]
    IN  IF ~TruthySeq(transcript) \/ stripped = <<>>
        THEN [ok  |-> FALSE,
              mem |-> [named EXCEPT !.validation_error = Val(Msg("empty", 0, <<>>))]]
        ELSE IF TooShort(stripped)
        THEN [ok  |-> FALSE,
              mem |-> [named EXCEPT !.validation_error =
                                        Val(Msg("too_short", Len(stripped), <<>>))]]
        ELSE [ok  |-> TRUE,
              mem |-> [named EXCEPT
                         !.validated_transcript = Val(stripped),
                         !.slack_channel = slack_channel,
                         !.llm_provider = Val(ResolveProvider(llm_provider)),
                         !.validation_error = None(NoMsg)]]

\* the node function: [ok, mem], ok = FALSE when it raises
validate_input(mem) ==
    LET transcript   == Get(mem.transcript, Val(<<>>))
        meeting_name == Get(mem.meeting_name, Val("Untitled Meeting"))
        meeting_date == Get(mem.meeting_date, Val("Unknown Date"))
        slack_channel == GetOrNone(mem.slack_channel)
        llm_provider == Get(mem.llm_provider, Val(anthropic))
        stripped     == Strip(transcript.v)
    IN  IF ~TruthySeq(transcript) \/ stripped = <<>>
        THEN [ok  |-> FALSE,
              mem |-> [mem EXCEPT !.validation_error = Val(Msg("empty", 0, <<>>))]]
        ELSE IF TooShort(stripped)
        THEN [ok  |-> FALSE,
              mem |-> [mem EXCEPT !.validation_error =
                                      Val(Msg("too_short", Len(stripped), <<>>))]]
        ELSE [ok  |-> TRUE,
              mem |-> [mem EXCEPT
                         !.validated_transcript = Val(stripped),
                         !.meeting_name = OrDefault(meeting_name, "Untitled Meeting"),
                         !.meeting_date = OrDefault(meeting_date, "Unknown Date"),
                         !.slack_channel = slack_channel,
                         !.llm_provider = Val(ResolveProvider(llm_provider)),
                         !.validation_error = None(NoMsg)]]

(***************************************************************************)
(* JSON values and dicts                                                   *)
(***************************************************************************)
JV(t, s, n, b, l, li, m) ==
    [t |-> t, s |-> s, n |-> n, b |-> b, l |-> l, li |-> li, m |-> m]
JNull     == JV("null", "", 0, FALSE, <<>>, <<>>, NoMsg)
JStr(x)   == JV("str", x, 0, FALSE, <<>>, <<>>, NoMsg)
JNum(x)   == JV("num", "", x, FALSE, <<>>, <<>>, NoMsg)
JBool(x)  == JV("bool", "", 0, x, <<>>, <<>>, NoMsg)
\* a list of scalars
JList(x)  == JV("list", "", 0, FALSE, x, <<>>, NoMsg)
\* a list of dicts; the empty list is the same value either way
JItems(x) == JV("list", "", 0, FALSE, <<>>, x, NoMsg)
\* a string built from an error message
JMsg(x)   == JV("str", "", 0, FALSE, <<>>, <<>>, x)

EmptyDict == [k \in {} |-> JNull]

\* {**d, key: value}
DictSet(d, key, value) ==
    [k \in DOMAIN d \cup {key} |-> IF k = key THEN value ELSE d[k]]

(***************************************************************************)
(* Text: a sequence of tokens. A token is a character (c # "") or, inside  *)
(* a JSON object, one member  "k": v  (c = ""), whose value is already a   *)
(* JSON value. "tick" is the backtick.                                     *)
(***************************************************************************)
Ch(c)     == [c |-> c, k |-> "", v |-> JNull]
Mem(k, v) == [c |-> "", k |-> k, v |-> v]

Chars(cs) == [i \in 1..Len(cs) |-> Ch(cs[i])]

IsWs(tok) == tok.c \in Whitespace

Drop(s, n) == IF n >= Len(s) THEN <<>> ELSE SubSeq(s, n + 1, Len(s))
Take(s, n) == IF n >= Len(s) THEN s ELSE SubSeq(s, 1, n)

\* s starts with the characters cs
StartsWith(s, cs) ==
    /\ Len(s) >= Len(cs)
    /\ \A i \in 1..Len(cs) : s[i].c = cs[i]

Fence == <<"tick", "tick", "tick">>
LangTag == <<"j", "s", "o", "n">>

RECURSIVE SkipWs(_)
SkipWs(s) == IF s # <<>> /\ IsWs(Head(s)) THEN SkipWs(Tail(s)) ELSE s

\* re.sub(r"```(?:json)?\s*", "", raw)
RECURSIVE FenceSub_greedy(_)
FenceSub_greedy(s) ==
    IF s = <<>> THEN <<>>
    ELSE IF StartsWith(s, Fence)
    THEN LET r == Drop(s, 3)
             t == IF StartsWith(r, LangTag) THEN Drop(r, 4) ELSE r
         IN  FenceSub_greedy(Drop(SkipWs(t), 1))
    ELSE <<Head(s)>> \o FenceSub_greedy(Tail(s))

RECURSIVE FenceSub(_)
FenceSub(s) ==
    IF s = <<>> THEN <<>>
    ELSE IF StartsWith(s, Fence)
    THEN LET r == Drop(s, 3)
             t == IF StartsWith(r, LangTag) THEN Drop(r, 4) ELSE r
         IN  FenceSub(SkipWs(t))
    ELSE <<Head(s)>> \o FenceSub(Tail(s))

\* .replace("```", "")
RECURSIVE ReplaceFence(_)
ReplaceFence(s) ==
    IF s = <<>> THEN <<>>
    ELSE IF StartsWith(s, Fence) THEN ReplaceFence(Drop(s, 3))
    ELSE <<Head(s)>> \o ReplaceFence(Tail(s))

RECURSIVE LStripText(_)
LStripText(s) == IF s # <<>> /\ IsWs(Head(s)) THEN LStripText(Tail(s)) ELSE s

RECURSIVE RStripText(_)
RStripText(s) ==
    IF s # <<>> /\ IsWs(s[Len(s)]) THEN RStripText(SubSeq(s, 1, Len(s) - 1)) ELSE s

\* .strip() on a text
StripText(s) == RStripText(LStripText(s))

\* str.find / str.rfind of one character: 0-based index, -1 when absent
Find(s, c) ==
    LET hits == {i \in 1..Len(s) : s[i].c = c}
    IN  IF hits = {} THEN -1 ELSE (CHOOSE i \in hits : \A j \in hits : i <= j) - 1
RFind_first(s, c) ==
    LET hits == {i \in 1..Len(s) : s[i].c = c}
    IN  IF hits = {} THEN -1 ELSE (CHOOSE i \in hits : \A j \in hits : i <= j) - 1
RFind(s, c) ==
    LET hits == {i \in 1..Len(s) : s[i].c = c}
    IN  IF hits = {} THEN -1 ELSE (CHOOSE i \in hits : \A j \in hits : i >= j) - 1

\* clean[start:end + 1] with 0-based start, end
Slice(s, start, end) ==
    IF end < start THEN <<>> ELSE SubSeq(s, start + 1, end + 1)

\* json.loads on the tokens of one object: whitespace between tokens is
\* skipped, the object is "{" member ("," member)* "}" or "{" "}", and when a
\* key repeats the last member wins. [ok, obj]
json_loads(s) ==
    LET toks  == SelectSeq(s, LAMBDA tok : ~IsWs(tok))
        n     == Len(toks)
        inner == SubSeq(toks, 2, n - 1)
        wellformed ==
            /\ n >= 2
            /\ toks[1].c = "{"
            /\ toks[n].c = "}"
            /\ \/ inner = <<>>
               \/ /\ Len(inner) % 2 = 1
                  /\ \A i \in 1..Len(inner) :
                        IF i % 2 = 1 THEN inner[i].c = "" ELSE inner[i].c = ","
        last(k) == CHOOSE i \in 1..Len(inner) :
                      /\ inner[i].c = "" /\ inner[i].k = k
                      /\ \A j \in 1..Len(inner) :
                            (inner[j].c = "" /\ inner[j].k = k) => j <= i
    IN  IF wellformed
        THEN [ok  |-> TRUE,
              obj |-> [k \in {inner[i].k : i \in {j \in 1..Len(inner) : j % 2 = 1}}
                          |-> inner[last(k)].v]]
        ELSE [ok |-> FALSE, obj |-> EmptyDict]

\* [status, obj], status "ok", "nojson" (the ValueError it
\* raises itself) or "malformed" (json.JSONDecodeError)
_extract_json(raw) ==
    LET clean == StripText(ReplaceFence(FenceSub(raw)))
        start == Find(clean, "{")
        end   == RFind(clean, "}")
        res   == json_loads(Slice(clean, start, end))
    IN  IF start = -1 \/ end = -1
        THEN [status |-> "nojson", obj |-> EmptyDict]
        ELSE IF res.ok THEN [status |-> "ok", obj |-> res.obj]
        ELSE [status |-> "malformed", obj |-> EmptyDict]

(***************************************************************************)
(* The pydantic schemas: ActionItem, MeetingNotesOutput                    *)
(***************************************************************************)
\* a str field: when given it must be a string, when missing it must have a
\* default
StrFieldOk(d, k, required) ==
    IF k \in DOMAIN d THEN d[k].t = "str" /\ d[k].m = NoMsg ELSE ~required
StrField(d, k, default) == IF k \in DOMAIN d THEN d[k].s ELSE default

\* the pattern with a "$" that also matches before a final newline
PriorityPattern_newline(p) == p \in {"high", "medium", "low", "high\n"}

\* pattern="^(high|medium|low)$", matched by pydantic: "$" is the end of the
\* string only
PriorityPattern(p) == p \in {"high", "medium", "low"}

ActionItemOk(d) ==
    /\ StrFieldOk(d, "task", TRUE)
    /\ StrFieldOk(d, "owner", TRUE)
    /\ StrFieldOk(d, "due", FALSE)
    /\ StrFieldOk(d, "priority", FALSE)
    /\ ("priority" \in DOMAIN d => PriorityPattern(d["priority"].s))

\* an ActionItem whose due and priority have no default
ActionItem_no_defaults(d) ==
    [task     |-> StrField(d, "task", ""),
     owner    |-> StrField(d, "owner", ""),
     due      |-> StrField(d, "due", ""),
     priority |-> StrField(d, "priority", "")]

\* ActionItem(**d) for a d that validates
ActionItem(d) ==
    [task     |-> StrField(d, "task", ""),
     owner    |-> StrField(d, "owner", ""),
     due      |-> StrField(d, "due", "TBD"),
     priority |-> StrField(d, "priority", "medium")]

\* a list[str] field with default_factory=list
StrListOk(d, k) ==
    k \in DOMAIN d =>
        /\ d[k].t = "list"
        /\ d[k].li = <<>>
        /\ \A i \in 1..Len(d[k].l) : d[k].l[i].t = "str"
StrList(d, k) ==
    IF k \in DOMAIN d THEN [i \in 1..Len(d[k].l) |-> d[k].l[i].s] ELSE <<>>

\* action_items: list[ActionItem]
ItemListOk(d, k) ==
    k \in DOMAIN d =>
        /\ d[k].t = "list"
        /\ d[k].l = <<>>
        /\ \A i \in 1..Len(d[k].li) : ActionItemOk(d[k].li[i])
ItemList(d, k) ==
    IF k \in DOMAIN d THEN [i \in 1..Len(d[k].li) |-> ActionItem(d[k].li[i])]
    ELSE <<>>

\* a bool field in pydantic's lax mode: booleans, 0 and 1, and the strings
\* it reads as booleans
TrueStrings  == {"true", "1", "yes", "on", "y", "t"}
FalseStrings == {"false", "0", "no", "off", "n", "f"}
BoolFieldOk(d, k) ==
    k \in DOMAIN d =>
        \/ d[k].t = "bool"
        \/ d[k].t = "num" /\ d[k].n \in {0, 1}
        \/ d[k].t = "str" /\ d[k].s \in TrueStrings \cup FalseStrings
BoolField(d, k, default) ==
    IF k \notin DOMAIN d THEN default
    ELSE IF d[k].t = "bool" THEN d[k].b
    ELSE IF d[k].t = "num" THEN d[k].n = 1
    ELSE d[k].s \in TrueStrings

\* MeetingNotesOutput(**d): [ok, notes], ok = FALSE for a ValidationError;
\* keys that are no field of the schema are ignored
MeetingNotesOutput(d) ==
    IF /\ StrFieldOk(d, "summary", TRUE)
       /\ StrListOk(d, "attendees")
       /\ StrListOk(d, "decisions")
       /\ ItemListOk(d, "action_items")
       /\ StrListOk(d, "blockers")
       /\ StrListOk(d, "follow_ups")
       /\ BoolFieldOk(d, "slack_message_sent")
    THEN [ok    |-> TRUE,
          notes |-> [summary      |-> StrField(d, "summary", ""),
                     attendees    |-> StrList(d, "attendees"),
                     decisions    |-> StrList(d, "decisions"),
                     action_items |-> ItemList(d, "action_items"),
                     blockers     |-> StrList(d, "blockers"),
                     follow_ups   |-> StrList(d, "follow_ups"),
                     slack_message_sent |-> BoolField(d, "slack_message_sent", FALSE)]]
    ELSE [ok    |-> FALSE,
          notes |-> [summary |-> "", attendees |-> <<>>, decisions |-> <<>>,
                     action_items |-> <<>>, blockers |-> <<>>, follow_ups |-> <<>>,
                     slack_message_sent |-> FALSE]]

DumpStrList(l) == JList([i \in 1..Len(l) |-> JStr(l[i])])

\* an item dumped with its priority in the upper case of the message
DumpItem_upper(it) ==
    [k \in {"task", "owner", "due", "priority"} |->
        JStr(CASE k = "task" -> it.task [] k = "owner" -> it.owner
               [] k = "due" -> it.due
               [] OTHER -> IF it.priority = "high" THEN "HIGH" ELSE it.priority)]

DumpItem(it) ==
    [k \in {"task", "owner", "due", "priority"} |->
        JStr(CASE k = "task" -> it.task [] k = "owner" -> it.owner
               [] k = "due" -> it.due [] OTHER -> it.priority)]

\* notes.model_dump()
model_dump(notes) ==
    [k \in {"summary", "attendees", "decisions", "action_items", "blockers",
            "follow_ups", "slack_message_sent"} |->
        CASE k = "summary"      -> JStr(notes.summary)
          [] k = "attendees"    -> DumpStrList(notes.attendees)
          [] k = "decisions"    -> DumpStrList(notes.decisions)
          [] k = "action_items" ->
                JItems([i \in 1..Len(notes.action_items) |->
                           DumpItem(notes.action_items[i])])
          [] k = "blockers"     -> DumpStrList(notes.blockers)
          [] k = "follow_ups"   -> DumpStrList(notes.follow_ups)
          [] OTHER              -> JBool(notes.slack_message_sent)]

(***************************************************************************)
(* extract_meeting_data                                                    *)
(***************************************************************************)
SlotStr(slot, none) == IF slot.tag = "val" THEN slot.v ELSE none

\* the arguments of the fixed prompt template
_build_extraction_prompt(transcript, meeting_name, meeting_date) ==
    [transcript   |-> SlotStr(transcript, <<>>),
     meeting_name |-> SlotStr(meeting_name, "None"),
     meeting_date |-> SlotStr(meeting_date, "None")]

NoRequest == [model |-> "", prompt |-> _build_extraction_prompt(
                  None(<<>>), Val(""), Val(""))]

\* the request ctx.llm.complete is called with
LlmRequest(mem) ==
    LET provider == Get(mem.llm_provider, Val(anthropic))
        model    == IF provider.tag = "val"
                    THEN RegistryGet(provider.v, default_config_model)
                    ELSE default_config_model
    IN  [model  |-> model,
         prompt |-> _build_extraction_prompt(
                        Get(mem.validated_transcript, Val(<<>>)),
                        Get(mem.meeting_name, Val("Untitled Meeting")),
                        Get(mem.meeting_date, Val("Unknown Date")))]

\* reply: [kind, text]. kind "raise": ctx.llm.complete raises; "none": the
\* response's content is None, which is stored and then fails len(raw_text);
\* "text": the response's content is text
extract_meeting_data(mem, reply) ==
    IF reply.kind = "raise" THEN [ok |-> FALSE, mem |-> mem]
    ELSE IF reply.kind = "none"
    THEN [ok |-> FALSE, mem |-> [mem EXCEPT !.raw_extraction = None(<<>>)]]
    ELSE [ok |-> TRUE, mem |-> [mem EXCEPT !.raw_extraction = Val(reply.text)]]

(***************************************************************************)
(* parse_and_validate_output                                               *)
(***************************************************************************)
\* a failure that raises without recording parse_error
ParseFailed_unrecorded(mem, msg) == [ok |-> FALSE, mem |-> mem]

\* the except branch: parse_error is recorded and ValueError raised
ParseFailed(mem, msg) ==
    [ok |-> FALSE, mem |-> [mem EXCEPT !.parse_error = Val(msg)]]

parse_and_validate_output(mem) ==
    LET raw    == Get(mem.raw_extraction, Val(<<>>))
        parsed == _extract_json(raw.v)
        notes  == MeetingNotesOutput(parsed.obj)
    IN  IF parsed.status = "nojson"
        THEN ParseFailed(mem, Msg("no_json_found", 0, Take(raw.v, SnippetLen)))
        ELSE IF parsed.status = "malformed"
        THEN ParseFailed(mem, Msg("json_decode_error", 0, <<>>))
        ELSE IF ~notes.ok
        THEN ParseFailed(mem, Msg("validation_error", 0, <<>>))
        ELSE [ok  |-> TRUE,
              mem |-> [mem EXCEPT !.meeting_notes = Val(model_dump(notes.notes)),
                                  !.parse_error = None(NoMsg)]]

(***************************************************************************)
(* format_slack_message                                                    *)
(***************************************************************************)
\* a Block Kit block: its type, what it renders, and the strings rendered
Block(type, role, emoji, parts) ==
    [type |-> type, role |-> role, emoji |-> emoji, parts |-> parts]

Divider_untyped == Block("", "divider", "", <<>>)
Divider == Block("divider", "divider", "", <<>>)

\* the priority_emoji dict without its "low" entry
PriorityEmoji_no_low(priority) ==
    CASE priority = "high" -> "red_circle"
      [] priority = "medium" -> "yellow_circle"
      [] OTHER -> "white_circle"

\* priority_emoji.get(priority, neutral)
PriorityEmoji(priority) ==
    CASE priority = "high" -> "red_circle"
      [] priority = "medium" -> "yellow_circle"
      [] priority = "low" -> "green_circle"
      [] OTHER -> "white_circle"

\* str.upper() on the priorities
Upper(p) ==
    CASE p = "high" -> "HIGH" [] p = "medium" -> "MEDIUM" [] p = "low" -> "LOW"
      [] OTHER -> p

\* the blockers section written without looking at the list
_build_slack_blocks_empty_sections(notes, meeting_name, meeting_date) ==
    LET date_part == IF TruthyStr(meeting_date) /\ meeting_date.v # "Unknown Date"
                     THEN <<meeting_date.v>> ELSE <<>>
        attendee_part == IF notes.attendees # <<>> THEN notes.attendees ELSE <<>>
        meta_parts == date_part \o attendee_part
        item_block(it) ==
            Block("section", "action_item", PriorityEmoji(it.priority),
                  <<it.task, it.owner, it.due, Upper(it.priority)>>)
    IN  <<Block("header", "header", "bee", <<SlotStr(meeting_name, "None")>>)>>
        \o (IF meta_parts # <<>>
            THEN <<Block("section", "meta", "", meta_parts)>> ELSE <<>>)
        \o <<Divider, Block("section", "summary", "", <<notes.summary>>)>>
        \o (IF notes.decisions # <<>>
            THEN <<Divider, Block("section", "decisions", "", notes.decisions)>>
            ELSE <<>>)
        \o (IF notes.action_items # <<>>
            THEN <<Divider, Block("section", "action_items", "", <<>>)>>
                 \o [i \in 1..Len(notes.action_items) |->
                        item_block(notes.action_items[i])]
            ELSE <<>>)
        \o <<Divider, Block("section", "blockers", "", notes.blockers)>>
        \o (IF notes.follow_ups # <<>>
            THEN <<Divider, Block("section", "follow_ups", "", notes.follow_ups)>>
            ELSE <<>>)
        \o <<Divider, Block("context", "footer", "", <<>>)>>

_build_slack_blocks(notes, meeting_name, meeting_date) ==
    LET date_part == IF TruthyStr(meeting_date) /\ meeting_date.v # "Unknown Date"
                     THEN <<meeting_date.v>> ELSE <<>>
        attendee_part == IF notes.attendees # <<>> THEN notes.attendees ELSE <<>>
        meta_parts == date_part \o attendee_part
        item_block(it) ==
            Block("section", "action_item", PriorityEmoji(it.priority),
                  <<it.task, it.owner, it.due, Upper(it.priority)>>)
    IN  <<Block("header", "header", "bee", <<SlotStr(meeting_name, "None")>>)>>
        \o (IF meta_parts # <<>>
            THEN <<Block("section", "meta", "", meta_parts)>> ELSE <<>>)
        \o <<Divider, Block("section", "summary", "", <<notes.summary>>)>>
        \o (IF notes.decisions # <<>>
            THEN <<Divider, Block("section", "decisions", "", notes.decisions)>>
            ELSE <<>>)
        \o (IF notes.action_items # <<>>
            THEN <<Divider, Block("section", "action_items", "", <<>>)>>
                 \o [i \in 1..Len(notes.action_items) |->
                        item_block(notes.action_items[i])]
            ELSE <<>>)
        \o (IF notes.blockers # <<>>
            THEN <<Divider, Block("section", "blockers", "", notes.blockers)>>
            ELSE <<>>)
        \o (IF notes.follow_ups # <<>>
            THEN <<Divider, Block("section", "follow_ups", "", notes.follow_ups)>>
            ELSE <<>>)
        \o <<Divider, Block("context", "footer", "", <<>>)>>

\* a payload dict: keys lists the keys it has
Payload(keys, blocks, text) == [keys |-> keys, blocks |-> blocks, text |-> text]
EmptyPayload == Payload({}, <<>>, "")

format_slack_message(mem) ==
    LET notes_raw    == Get(mem.meeting_notes, Val(EmptyDict))
        notes        == MeetingNotesOutput(notes_raw.v)
        meeting_name == Get(mem.meeting_name, Val("Meeting Notes"))
        meeting_date == Get(mem.meeting_date, Val(""))
        blocks       == _build_slack_blocks(notes.notes, meeting_name, meeting_date)
    IN  IF notes_raw.tag # "val" \/ ~notes.ok
        THEN [ok |-> FALSE, mem |-> mem]
        ELSE [ok  |-> TRUE,
              mem |-> [mem EXCEPT !.slack_payload =
                         Val(Payload({"blocks", "text"}, blocks,
                                     SlotStr(meeting_name, "None")))]]

(***************************************************************************)
(* post_to_slack                                                           *)
(***************************************************************************)
\* a slack_result dict: keys lists the keys it has
SlackResult(keys, sent, reason, result) ==
    [keys |-> keys, sent |-> sent, reason |-> reason, result |-> result]
NoResponse == [ok |-> FALSE, error |-> ""]

\* the arguments of ctx.tools.call("slack_post_message", ...)
ToolRequest(mem) ==
    LET slack_payload == Get(mem.slack_payload, Val(EmptyPayload)).v
    IN  [channel |-> mem.slack_channel.v,
         blocks  |-> IF "blocks" \in slack_payload.keys
                     THEN slack_payload.blocks ELSE <<>>,
         text    |-> IF "text" \in slack_payload.keys
                     THEN slack_payload.text ELSE "Meeting Notes"]

\* whether post_to_slack calls the tool
CallsTool_none_only(mem) == GetOrNone(mem.slack_channel).tag = "val"
CallsTool(mem) == TruthyStr(GetOrNone(mem.slack_channel))

\* reply: [raised, error, response], read only when the tool is called
post_to_slack_fatal(mem, reply) ==
    LET result ==
            IF ~CallsTool(mem)
            THEN SlackResult({"sent", "reason"}, FALSE, "no_channel", NoResponse)
            ELSE SlackResult({"sent", "result"}, TRUE, "", reply.response)
    IN  IF CallsTool(mem) /\ reply.raised THEN [ok |-> FALSE, mem |-> mem]
        ELSE [ok |-> TRUE, mem |-> [mem EXCEPT !.slack_result = Val(result)]]

post_to_slack(mem, reply) ==
    LET result ==
            IF ~CallsTool(mem)
            THEN SlackResult({"sent", "reason"}, FALSE, "no_channel", NoResponse)
            ELSE IF reply.raised
            THEN SlackResult({"sent", "reason"}, FALSE, reply.error, NoResponse)
            ELSE SlackResult({"sent", "result"}, TRUE, "", reply.response)
    IN  [ok |-> TRUE, mem |-> [mem EXCEPT !.slack_result = Val(result)]]

(***************************************************************************)
(* compile_final_output, handle_error                                      *)
(***************************************************************************)
\* a slack_result without the sent key read as delivered
compile_final_output_default_true(mem) ==
    LET notes_raw    == Get(mem.meeting_notes, Val(EmptyDict))
        slack_result == Get(mem.slack_result,
                            Val(SlackResult({"sent"}, FALSE, "", NoResponse)))
        sent   == IF "sent" \in slack_result.v.keys THEN slack_result.v.sent
                  ELSE TRUE
        output == DictSet(notes_raw.v, "slack_message_sent", JBool(sent))
    IN  IF notes_raw.tag # "val" \/ slack_result.tag # "val"
        THEN [ok |-> FALSE, mem |-> mem]
        ELSE [ok |-> TRUE, mem |-> [mem EXCEPT !.final_output = Val(output)]]

\* the flag written into the stored report itself
compile_final_output_in_place(mem) ==
    LET notes_raw    == Get(mem.meeting_notes, Val(EmptyDict))
        slack_result == Get(mem.slack_result,
                            Val(SlackResult({"sent"}, FALSE, "", NoResponse)))
        sent   == IF "sent" \in slack_result.v.keys THEN slack_result.v.sent
                  ELSE FALSE
        output == DictSet(notes_raw.v, "slack_message_sent", JBool(sent))
    IN  IF notes_raw.tag # "val" \/ slack_result.tag # "val"
        THEN [ok |-> FALSE, mem |-> mem]
        ELSE [ok |-> TRUE, mem |-> [mem EXCEPT !.final_output = Val(output),
                                               !.meeting_notes = Val(output)]]

compile_final_output(mem) ==
    LET notes_raw    == Get(mem.meeting_notes, Val(EmptyDict))
        slack_result == Get(mem.slack_result,
                            Val(SlackResult({"sent"}, FALSE, "", NoResponse)))
        sent   == IF "sent" \in slack_result.v.keys THEN slack_result.v.sent
                  ELSE FALSE
        output == DictSet(notes_raw.v, "slack_message_sent", JBool(sent))
    IN  IF notes_raw.tag # "val" \/ slack_result.tag # "val"
        THEN [ok |-> FALSE, mem |-> mem]
        ELSE [ok |-> TRUE, mem |-> [mem EXCEPT !.final_output = Val(output)]]

UnknownError == Msg("unknown_error_occurred", 0, <<>>)

\* the summary of a stored report carried into the error output
handle_error_keeps_report(mem) ==
    LET validation_error == GetOrNone(mem.validation_error)
        parse_error      == GetOrNone(mem.parse_error)
        error_msg == IF TruthyMsg(validation_error) THEN validation_error.v
                     ELSE IF TruthyMsg(parse_error) THEN parse_error.v
                     ELSE UnknownError
        output ==
            [k \in {"error", "error_message", "summary", "attendees", "decisions",
                    "action_items", "blockers", "follow_ups", "slack_message_sent"}
                |-> CASE k = "error" -> JBool(TRUE)
                      [] k = "error_message" -> JMsg(error_msg)
                      [] k = "summary" ->
                            IF mem.meeting_notes.tag = "val"
                            THEN mem.meeting_notes.v["summary"] ELSE JStr("")
                      [] k = "slack_message_sent" -> JBool(FALSE)
                      [] OTHER -> JList(<<>>)]
    IN  [ok |-> TRUE, mem |-> [mem EXCEPT !.final_output = Val(output)]]

\* the parse error looked at before the validation error
handle_error_parse_first(mem) ==
    LET validation_error == GetOrNone(mem.validation_error)
        parse_error      == GetOrNone(mem.parse_error)
        error_msg == IF TruthyMsg(parse_error) THEN parse_error.v
                     ELSE IF TruthyMsg(validation_error) THEN validation_error.v
                     ELSE UnknownError
        output ==
            [k \in {"error", "error_message", "summary", "attendees", "decisions",
                    "action_items", "blockers", "follow_ups", "slack_message_sent"}
                |-> CASE k = "error" -> JBool(TRUE)
                      [] k = "error_message" -> JMsg(error_msg)
                      [] k = "summary" -> JStr("")
                      [] k = "slack_message_sent" -> JBool(FALSE)
                      [] OTHER -> JList(<<>>)]
    IN  [ok |-> TRUE, mem |-> [mem EXCEPT !.final_output = Val(output)]]

handle_error(mem) ==
    LET validation_error == GetOrNone(mem.validation_error)
        parse_error      == GetOrNone(mem.parse_error)
        error_msg == IF TruthyMsg(validation_error) THEN validation_error.v
                     ELSE IF TruthyMsg(parse_error) THEN parse_error.v
                     ELSE UnknownError
        output ==
            [k \in {"error", "error_message", "summary", "attendees", "decisions",
                    "action_items", "blockers", "follow_ups", "slack_message_sent"}
                |-> CASE k = "error" -> JBool(TRUE)
                      [] k = "error_message" -> JMsg(error_msg)
                      [] k = "summary" -> JStr("")
                      [] k = "slack_message_sent" -> JBool(FALSE)
                      [] OTHER -> JList(<<>>)]
    IN  [ok |-> TRUE, mem |-> [mem EXCEPT !.final_output = Val(output)]]

(***************************************************************************)
(* agent.py: the graph                                                     *)
(***************************************************************************)
nodes == <<"validate-input", "extract-meeting-data", "parse-and-validate",
           "format-slack-message", "post-to-slack", "compile-final-output",
           "handle-error">>

EdgeSpec(id, source, target, condition) ==
    [id |-> id, source |-> source, target |-> target, condition |-> condition]

\* the edges with extract-meeting-data wired straight to the formatter
edges_skip_parse ==
    <<EdgeSpec("validate-to-extract", "validate-input", "extract-meeting-data", "ON_SUCCESS"),
      EdgeSpec("validate-to-error", "validate-input", "handle-error", "ON_FAILURE"),
      EdgeSpec("extract-to-parse", "extract-meeting-data", "format-slack-message", "ON_SUCCESS"),
      EdgeSpec("extract-to-error", "extract-meeting-data", "handle-error", "ON_FAILURE"),
      EdgeSpec("slack-format-to-post", "format-slack-message", "post-to-slack", "ON_SUCCESS"),
      EdgeSpec("post-slack-to-compile", "post-to-slack", "compile-final-output", "ALWAYS")>>

\* the edges with a failed extraction sent back to the extraction node
edges_retry_extract ==
    <<EdgeSpec("validate-to-extract", "validate-input", "extract-meeting-data", "ON_SUCCESS"),
      EdgeSpec("validate-to-error", "validate-input", "handle-error", "ON_FAILURE"),
      EdgeSpec("extract-to-parse", "extract-meeting-data", "parse-and-validate", "ON_SUCCESS"),
      EdgeSpec("extract-to-error", "extract-meeting-data", "extract-meeting-data", "ON_FAILURE"),
      EdgeSpec("parse-to-slack-format", "parse-and-validate", "format-slack-message", "ON_SUCCESS"),
      EdgeSpec("parse-to-error", "parse-and-validate", "handle-error", "ON_FAILURE"),
      EdgeSpec("slack-format-to-post", "format-slack-message", "post-to-slack", "ON_SUCCESS"),
      EdgeSpec("post-slack-to-compile", "post-to-slack", "compile-final-output", "ALWAYS")>>

\* the edges with one more edge to a node that does not exist
edges_dangling ==
    <<EdgeSpec("validate-to-extract", "validate-input", "extract-meeting-data", "ON_SUCCESS"),
      EdgeSpec("validate-to-error", "validate-input", "handle-error", "ON_FAILURE"),
      EdgeSpec("extract-to-parse", "extract-meeting-data", "parse-and-validate", "ON_SUCCESS"),
      EdgeSpec("extract-to-error", "extract-meeting-data", "handle-error", "ON_FAILURE"),
      EdgeSpec("parse-to-slack-format", "parse-and-validate", "format-slack-message", "ON_SUCCESS"),
      EdgeSpec("parse-to-error", "parse-and-validate", "handle-error", "ON_FAILURE"),
      EdgeSpec("slack-format-to-post", "format-slack-message", "post-to-slack", "ON_SUCCESS"),
      EdgeSpec("post-slack-to-compile", "post-to-slack", "compile-final-output", "ALWAYS"),
      EdgeSpec("compile-to-notify", "compile-final-output", "notify", "ON_SUCCESS")>>

edges ==
    <<EdgeSpec("validate-to-extract", "validate-input", "extract-meeting-data", "ON_SUCCESS"),
      EdgeSpec("validate-to-error", "validate-input", "handle-error", "ON_FAILURE"),
      EdgeSpec("extract-to-parse", "extract-meeting-data", "parse-and-validate", "ON_SUCCESS"),
      EdgeSpec("extract-to-error", "extract-meeting-data", "handle-error", "ON_FAILURE"),
      EdgeSpec("parse-to-slack-format", "parse-and-validate", "format-slack-message", "ON_SUCCESS"),
      EdgeSpec("parse-to-error", "parse-and-validate", "handle-error", "ON_FAILURE"),
      EdgeSpec("slack-format-to-post", "format-slack-message", "post-to-slack", "ON_SUCCESS"),
      EdgeSpec("post-slack-to-compile", "post-to-slack", "compile-final-output", "ALWAYS")>>

entry_node == "validate-input"

entry_points == [start |-> "validate-input"]

\* handle-error left out of the terminal nodes
terminal_nodes_compile_only == {"compile-final-output"}

terminal_nodes == {"compile-final-output", "handle-error"}

\* MeetingNotesAgent.validate(): the errors are kept as a set of
\* <<what is wrong, the edge id or name it is wrong about>>
GraphError(what, about) == <<what, about>>

validate ==
    LET node_ids == {nodes[i] : i \in DOMAIN nodes}
        errors ==
            {GraphError("edge source not found", edges[i].id) :
                 i \in {k \in DOMAIN edges : edges[k].source \notin node_ids}}
            \cup
            {GraphError("edge target not found", edges[i].id) :
                 i \in {k \in DOMAIN edges : edges[k].target \notin node_ids}}
            \cup
            (IF entry_node \notin node_ids
             THEN {GraphError("entry node not found", entry_node)} ELSE {})
            \cup
            {GraphError("terminal node not found", t) :
                 t \in {n \in terminal_nodes : n \notin node_ids}}
            \cup
            {GraphError("entry point references unknown node", ep) :
                 ep \in {k \in DOMAIN entry_points :
                            entry_points[k] \notin node_ids}}
    IN  [valid |-> Cardinality(errors) = 0, errors |-> errors, warnings |-> {}]

(***************************************************************************)
(* The executor's routing: after a node ran, a terminal node ends the run; *)
(* otherwise the first edge out of the node whose condition agrees with    *)
(* the node's outcome is followed, and the run fails when there is none.   *)
(***************************************************************************)
EdgeFires(condition, ok) ==
    \/ condition = "ALWAYS"
    \/ condition = "ON_SUCCESS" /\ ok
    \/ condition = "ON_FAILURE" /\ ~ok

Firing(n, ok) ==
    {i \in 1..Len(edges) : edges[i].source = n /\ EdgeFires(edges[i].condition, ok)}

\* one node has run with outcome res = [ok, mem]
Route(n, res) ==
    /\ memory' = res.mem
    /\ input_data' = input_data
    /\ path' = Append(path, [node |-> n, ok |-> res.ok])
    /\ IF n \in terminal_nodes
       THEN /\ node' = n
            /\ run_state' = IF res.ok THEN "completed" ELSE "failed"
       ELSE IF Firing(n, res.ok) = {}
       THEN /\ node' = n
            /\ run_state' = "failed"
       ELSE /\ node' = edges[CHOOSE i \in Firing(n, res.ok) :
                                \A j \in Firing(n, res.ok) : i <= j].target
            /\ run_state' = "running"

At(n) == run_state = "running" /\ node = n

(***************************************************************************)
(* Inputs: what the caller, the LLM and the delivery tool may supply       *)
(***************************************************************************)
\* n characters of transcript with a blank inside, lead and trail whitespace
\* characters around it
Transcript(lead, n, trail) ==
    Rep("\n", lead)
    \o (IF n >= 3 THEN <<"a", " ">> \o Rep("b", n - 2) ELSE Rep("a", n))
    \o Rep(" ", trail)

ShortTranscripts ==
    {Absent(<<>>), None(<<>>), Val(<<>>)}
    \cup {Val(Rep(" ", k)) : k \in 1..(MaxPad + 1)}
    \cup {Val(<<"\n", "\t", " ">>)}
    \cup {Val(Transcript(l, n, t)) : l \in 0..MaxPad, n \in {1, MinTranscriptLen - 1},
                                    t \in 0..MaxPad}

LongTranscripts ==
    {Val(Transcript(l, n, t)) :
        l \in 0..MaxPad, n \in MinTranscriptLen .. (MinTranscriptLen + MaxOver),
        t \in 0..MaxPad}

AllTranscripts == ShortTranscripts \cup LongTranscripts

AllNames == {Absent(""), None(""), Val(""), Val("Q1 Planning")}
AllDates == {Absent(""), None(""), Val(""), Val("2026-02-20")}
AllChannels == {Absent(""), Val(""), Val("#team")}
AllProviders ==
    {Absent(<<>>), None(<<>>), Val(<<>>), Val(anthropic), Val(gemini),
     Val(<<"C", "l", "a", "u", "d", "e">>),
     Val(<<"G", "E", "M", "I", "N", "I">>),
     Val(<<" ">> \o google),
     Val(<<"g", "p", "t", "-", "9", "9">>)}

\* the inputs of the full pipeline runs
RunTranscripts ==
    ShortTranscripts \cup {Val(Transcript(MaxPad, MinTranscriptLen, MaxPad))}
RunNames == {Absent(""), Val("Q1 Planning")}
RunDates == {Absent(""), Val("2026-02-20")}
RunChannels == {Absent(""), Val(""), Val("#team")}
RunProviders ==
    {Absent(<<>>), Val(<<"G", "E", "M", "I", "N", "I">>),
     Val(<<"g", "p", "t", "-", "9", "9">>)}

\* JSON objects the LLM may write
OptKey(k, vs) == {EmptyDict} \cup {k :> v : v \in vs}
Without(d, key) == [k \in DOMAIN d \ {key} |-> d[k]]

GoodItem ==
    ("task" :> JStr("t1")) @@ ("owner" :> JStr("Ann")) @@ ("due" :> JStr("Fri"))
    @@ ("priority" :> JStr("high"))
BareItem == ("task" :> JStr("t2")) @@ ("owner" :> JStr("Bob"))
UrgentItem == DictSet(GoodItem, "priority", JStr("urgent"))
BlankItem == DictSet(DictSet(BareItem, "task", JStr("")), "owner", JStr(""))

ItemGrid ==
    {t @@ o @@ d @@ p :
        t \in OptKey("task", {JStr(""), JStr("t1")}),
        o \in {"owner" :> JStr(""), "owner" :> JStr("Ann")},
        d \in OptKey("due", {JStr("Fri")}),
        p \in OptKey("priority", {JStr("high"), JStr("urgent")})}

ItemOdd ==
    {DictSet(GoodItem, "priority", v) :
        v \in {JStr("medium"), JStr("low"), JStr("HIGH"), JStr("high\n"), JStr(""),
               JNum(1), JNull}}
    \cup {DictSet(GoodItem, "due", JNull), DictSet(GoodItem, "task", JNum(7)),
          Without(GoodItem, "owner"), DictSet(GoodItem, "note", JStr("x"))}

\* the longest action_items list drawn from the core items
MaxItems == 2
RECURSIVE SeqsUpTo(_, _)
SeqsUpTo(S, n) ==
    IF n = 0 THEN {<<>>}
    ELSE LET shorter == SeqsUpTo(S, n - 1)
         IN  shorter \cup {Append(q, x) : q \in shorter, x \in S}

ItemLists ==
    {<<it>> : it \in ItemGrid \cup ItemOdd}
    \cup SeqsUpTo({GoodItem, BareItem, UrgentItem, BlankItem}, MaxItems)

BaseObj ==
    ("summary" :> JStr("ok")) @@ ("attendees" :> JList(<<JStr("Ann"), JStr("Bob")>>))
    @@ ("decisions" :> JList(<<JStr("d1"), JStr("d2")>>))
    @@ ("action_items" :> JItems(<<GoodItem>>))
    @@ ("blockers" :> JList(<<>>))
    @@ ("follow_ups" :> JList(<<JStr("f1")>>))

ListKeys == {"attendees", "decisions", "blockers", "follow_ups"}

LlmObjects ==
    {DictSet(BaseObj, "action_items", JItems(l)) : l \in ItemLists}
    \cup {DictSet(BaseObj, "summary", v) : v \in {JStr(""), JNum(5), JNull}}
    \cup {Without(BaseObj, k) : k \in DOMAIN BaseObj}
    \cup {DictSet(BaseObj, k, v) :
             k \in ListKeys \cup {"action_items"},
             v \in {JList(<<>>), JStr("x"), JNull, JList(<<JStr("z"), JNum(3)>>),
                    JList(<<JStr("z"), JStr("y"), JStr("z")>>)}}
    \cup {DictSet(BaseObj, "slack_message_sent", v) :
             v \in {JBool(TRUE), JBool(FALSE), JNum(1), JStr("yes"), JStr("maybe")}}
    \cup {DictSet(BaseObj, "delivery_sent", JBool(TRUE)),
          "summary" :> JStr("only"), EmptyDict,
          ("summary" :> JStr("s")) @@ ("slack_message_sent" :> JBool(TRUE))}

\* the text of an object: its members in a fixed key order, between braces
KeyOrder == <<"summary", "attendees", "decisions", "action_items", "blockers",
              "follow_ups", "slack_message_sent", "delivery_sent">>

RECURSIVE Join(_)
Join(ms) ==
    IF Len(ms) <= 1 THEN ms
    ELSE <<Head(ms), Ch(","), Ch(" ")>> \o Join(Tail(ms))

ObjText(ms) == <<Ch("{")>> \o Join(ms) \o <<Ch("}")>>

Members(d) ==
    LET keys == SelectSeq(KeyOrder, LAMBDA k : k \in DOMAIN d)
    IN  [i \in 1..Len(keys) |-> Mem(keys[i], d[keys[i]])]

Bare(d) == ObjText(Members(d))

\* prose and code fences the LLM may put around the object
Wrappers ==
    {[pre |-> Chars(<<"x", "x", ":", "\n">>), post |-> <<>>],
     [pre |-> Chars(Fence \o LangTag \o <<"\n">>), post |-> Chars(<<"\n">> \o Fence)],
     [pre |-> Chars(Fence \o <<"\n">>), post |-> Chars(<<"\n">> \o Fence \o <<"\n">>)],
     [pre |-> Chars(<<"x", " ">> \o Fence \o LangTag), post |-> Chars(Fence \o <<" ", "x">>)],
     [pre |-> Chars(<<" ">>), post |-> Chars(<<"\n", "x", "x">>)]}

Wrapped ==
    {w.pre \o Bare(d) \o w.post :
        w \in Wrappers,
        d \in {BaseObj, "summary" :> JStr("only"), Without(BaseObj, "summary"),
               DictSet(BaseObj, "action_items", JItems(<<UrgentItem>>))}}

\* texts that hold no object or a broken one
Broken ==
    {<<>>,
     Chars(<<"x", "x", " ", "x">>),
     Chars(<<"{">>),
     Chars(<<"}">>),
     Chars(<<"}", " ", "{">>),
     Chars(<<"{", "x", "}">>),
     <<Ch("{"), Mem("summary", JStr("cut"))>>,
     <<Mem("summary", JStr("nobrace")), Ch("}")>>,
     <<Ch("{"), Mem("summary", JStr("a")), Mem("decisions", JList(<<>>)), Ch("}")>>,
     <<Ch("{"), Mem("summary", JStr("a")), Ch(","), Ch("}")>>,
     Bare("summary" :> JStr("a")) \o Chars(<<" ">>) \o Bare("summary" :> JStr("b")),
     Chars(<<"x", "{", "x", "}", " ">>) \o Bare(BaseObj),
     Chars(Fence \o LangTag),
     <<Ch("{"), Mem("summary", JStr("first")), Ch(","), Mem("summary", JStr("")), Ch("}")>>}

RawTexts == {Bare(d) : d \in LlmObjects} \cup Wrapped \cup Broken

LlmReply(kind, text) == [kind |-> kind, text |-> text]
LlmReplies ==
    {LlmReply("raise", <<>>), LlmReply("none", <<>>)}
    \cup {LlmReply("text", t) : t \in RawTexts}

ToolReply(raised, error, response) ==
    [raised |-> raised, error |-> error, response |-> response]
NoToolReply == ToolReply(FALSE, "", NoResponse)
ToolReplies ==
    {ToolReply(TRUE, "connection refused", NoResponse),
     ToolReply(TRUE, "", NoResponse),
     ToolReply(FALSE, "", [ok |-> TRUE, error |-> ""]),
     ToolReply(FALSE, "", [ok |-> FALSE, error |-> "channel_not_found"])}

(***************************************************************************)
(* agent.py: the MeetingNotesAgent instance.  0 stands for None; n > 0 is  *)
(* the object the n-th _setup() built.  task holds each caller's position: *)
(* idle, or suspended in the await of executor.execute.  log lists the     *)
(* calls made on the instance and what each did.                           *)
(***************************************************************************)
IdleTask == [pc |-> "idle", op |-> "none", executor |-> 0]

MeetingNotesAgent(callers) ==
    [executor      |-> 0,
     graph         |-> 0,
     event_bus     |-> 0,
     tool_registry |-> 0,
     setups        |-> 0,
     executes      |-> 0,
     task          |-> [c \in callers |-> IdleTask],
     calls         |-> 0,
     log           |-> <<>>]

_setup(a) ==
    [a EXCEPT !.setups = a.setups + 1,
              !.event_bus = a.setups + 1,
              !.tool_registry = a.setups + 1,
              !.graph = a.setups + 1,
              !.executor = a.setups + 1]

start(a) == IF a.executor = 0 THEN _setup(a) ELSE a

stop_keeps_executor(a) == [a EXCEPT !.event_bus = 0]

stop(a) == [a EXCEPT !.executor = 0, !.event_bus = 0]

NotStarted == "Agent not started. Call start() first."
GraphNotBuilt == "Graph not built. Call start() first."
ExecutionTimeout == "Execution timeout"

\* trigger_and_wait up to its await: the RuntimeError it raises, or "" when
\* it goes on to executor.execute
trigger_and_wait_unchecked(a) == ""

trigger_and_wait(a) ==
    IF a.executor = 0 THEN NotStarted
    ELSE IF a.graph = 0 THEN GraphNotBuilt
    ELSE ""

\* what the awaited executor.execute can do
ExecuteOutcomes == {"result", "none", "raised"}

\* run(): result or ExecutionResult(success=False, error="Execution timeout")
RunResult(outcome) ==
    CASE outcome = "result" -> [returned |-> TRUE, success |-> TRUE, error |-> ""]
      [] outcome = "none"   -> [returned |-> TRUE, success |-> FALSE,
                                error |-> ExecutionTimeout]
      [] OTHER              -> [returned |-> FALSE, success |-> FALSE,
                                error |-> outcome]

Entry(op, c, ex, outcome) ==
    [op |-> op, caller |-> c, executor |-> ex, outcome |-> outcome]

Logged(a, entries) == [a EXCEPT !.log = a.log \o entries]

Called(a) == [a EXCEPT !.calls = a.calls + 1]

Executing(a, c, op) ==
    [a EXCEPT !.executes = a.executes + 1,
              !.task[c] = [pc |-> "executing", op |-> op,
                           executor |-> a.executor]]

Returned(a, c) == [a EXCEPT !.task[c] = IdleTask]

default_agent == MeetingNotesAgent({1})

\* the instance while its run() awaits the executor: the pipeline runs
RunningAgent == Executing(start(default_agent), 1, "run")

(***************************************************************************)
(* The node steps                                                          *)
(***************************************************************************)
RunValidateInput ==
    /\ At("validate-input")
    /\ Route("validate-input", validate_input(memory))
    /\ UNCHANGED <<llm_calls, llm_request, tool_calls, tool_reply, final_writes, agent>>

RunExtractMeetingData ==
    /\ At("extract-meeting-data")
    /\ \E reply \in LlmReplies :
          Route("extract-meeting-data", extract_meeting_data(memory, reply))
    /\ llm_calls' = llm_calls + 1
    /\ llm_request' = LlmRequest(memory)
    /\ UNCHANGED <<tool_calls, tool_reply, final_writes, agent>>

RunParseAndValidate ==
    /\ At("parse-and-validate")
    /\ Route("parse-and-validate", parse_and_validate_output(memory))
    /\ UNCHANGED <<llm_calls, llm_request, tool_calls, tool_reply, final_writes, agent>>

RunFormatSlackMessage ==
    /\ At("format-slack-message")
    /\ Route("format-slack-message", format_slack_message(memory))
    /\ UNCHANGED <<llm_calls, llm_request, tool_calls, tool_reply, final_writes, agent>>

RunPostToSlack ==
    /\ At("post-to-slack")
    /\ IF CallsTool(memory)
       THEN /\ \E reply \in ToolReplies :
                  /\ Route("post-to-slack", post_to_slack(memory, reply))
                  /\ tool_reply' = reply
            /\ tool_calls' = tool_calls + 1
       ELSE /\ Route("post-to-slack", post_to_slack(memory, NoToolReply))
            /\ UNCHANGED <<tool_calls, tool_reply>>
    /\ UNCHANGED <<llm_calls, llm_request, final_writes, agent>>

RunCompileFinalOutput ==
    /\ At("compile-final-output")
    /\ LET res == compile_final_output(memory)
       IN  /\ Route("compile-final-output", res)
           /\ final_writes' = IF res.ok THEN final_writes + 1 ELSE final_writes
    /\ UNCHANGED <<llm_calls, llm_request, tool_calls, tool_reply, agent>>

RunHandleError ==
    /\ At("handle-error")
    /\ Route("handle-error", handle_error(memory))
    /\ final_writes' = final_writes + 1
    /\ UNCHANGED <<llm_calls, llm_request, tool_calls, tool_reply, agent>>

(***************************************************************************)
(* A pipeline run: the state bag holds the invocation input, the run       *)
(* starts at the entry node                                                *)
(***************************************************************************)
Bag(transcript, meeting_name, meeting_date, slack_channel, llm_provider) ==
    [transcript           |-> transcript,
     meeting_name         |-> meeting_name,
     meeting_date         |-> meeting_date,
     slack_channel        |-> slack_channel,
     llm_provider         |-> llm_provider,
     validated_transcript |-> Absent(<<>>),
     validation_error     |-> Absent(NoMsg),
     raw_extraction       |-> Absent(<<>>),
     meeting_notes        |-> Absent(EmptyDict),
     parse_error          |-> Absent(NoMsg),
     slack_payload        |-> Absent(EmptyPayload),
     slack_result         |-> Absent(SlackResult({}, FALSE, "", NoResponse)),
     final_output         |-> Absent(EmptyDict)]

Start ==
    /\ input_data = memory
    /\ node = entry_node
    /\ run_state = "running"
    /\ path = <<>>
    /\ llm_calls = 0
    /\ llm_request = NoRequest
    /\ tool_calls = 0
    /\ tool_reply = NoToolReply
    /\ final_writes = 0
    /\ agent = RunningAgent

Init ==
    /\ \E t \in RunTranscripts, n \in RunNames, d \in RunDates,
          c \in RunChannels, p \in RunProviders :
          memory = Bag(t, n, d, c, p)
    /\ Start

Next ==
    \/ RunValidateInput
    \/ RunExtractMeetingData
    \/ RunParseAndValidate
    \/ RunFormatSlackMessage
    \/ RunPostToSlack
    \/ RunCompileFinalOutput
    \/ RunHandleError

Spec == Init /\ [][Next]_vars

(***************************************************************************)
(* validate_input alone, over every combination of input fields; the bag   *)
(* may already hold a validation_error                                     *)
(***************************************************************************)
StaleError == Msg("stale", 0, <<>>)

InitValidate ==
    /\ \E t \in AllTranscripts, n \in AllNames, d \in AllDates,
          c \in AllChannels, p \in AllProviders,
          e \in {Absent(NoMsg), Val(StaleError)} :
          memory = [Bag(t, n, d, c, p) EXCEPT !.validation_error = e]
    /\ Start

SpecValidate == InitValidate /\ [][RunValidateInput]_vars

(***************************************************************************)
(* parse_and_validate_output on its own: the bag of a run whose first two  *)
(* nodes succeeded, holding any of a wider set of LLM texts                *)
(***************************************************************************)
\* texts with backticks, a language tag or a fence in unusual places
EdgeTexts ==
    {Chars(LangTag \o <<" ">>) \o Bare(BaseObj),
     Chars(<<"tick", "tick", " ">>) \o Bare(BaseObj) \o Chars(<<" ", "tick">>),
     Chars(<<"tick">>) \o Bare(BaseObj) \o Chars(<<"tick", "tick">>),
     Chars(Fence \o <<"tick">>) \o Bare(BaseObj) \o Chars(Fence \o Fence),
     Chars(<<"{">> \o Fence \o <<"}">>),
     <<Ch("{"), Mem("summary", JStr("a")), Ch(",")>> \o Chars(Fence \o LangTag \o <<" ">>)
         \o <<Mem("decisions", JList(<<JStr("d1")>>)), Ch("}")>>,
     Chars(<<"x", "}", " ">>) \o Bare(BaseObj),
     Bare(BaseObj) \o Chars(<<" ", "{", "x">>),
     Chars(<<"\n", " ">>) \o Bare("summary" :> JStr("only")) \o Chars(<<" ", "\n">>)}

ExtractTexts == RawTexts \cup EdgeTexts

ExtractNames == {Val("Q1 Planning"), Val("")}

InitExtract ==
    /\ \E t \in ExtractTexts, n \in ExtractNames :
          LET bag == Bag(Val(Transcript(0, MinTranscriptLen, 0)), n,
                         Val("2026-02-20"), Val("#team"), Val(anthropic))
          IN  /\ input_data = bag
              /\ memory = [validate_input(bag).mem EXCEPT !.raw_extraction = Val(t)]
    /\ node = "parse-and-validate"
    /\ run_state = "running"
    /\ path = <<[node |-> "validate-input", ok |-> TRUE],
                [node |-> "extract-meeting-data", ok |-> TRUE]>>
    /\ llm_calls = 1
    /\ llm_request = NoRequest
    /\ tool_calls = 0
    /\ tool_reply = NoToolReply
    /\ final_writes = 0
    /\ agent = RunningAgent

SpecExtract == InitExtract /\ [][RunParseAndValidate]_vars

(***************************************************************************)
(* format_slack_message on its own: the bag of a run whose first three     *)
(* nodes succeeded, holding any validated report with any name and date    *)
(***************************************************************************)
FormatObjects ==
    {("summary" :> JStr("ok")) @@ ("attendees" :> JList(a))
        @@ ("decisions" :> JList(d)) @@ ("action_items" :> JItems(l))
        @@ ("blockers" :> JList(b)) @@ ("follow_ups" :> JList(f)) :
        a \in {<<>>, <<JStr("Ann"), JStr("Bob")>>},
        d \in {<<>>, <<JStr("d1"), JStr("d2")>>},
        l \in SeqsUpTo({GoodItem, BareItem}, MaxItems),
        b \in {<<>>, <<JStr("b1")>>},
        f \in {<<>>, <<JStr("f1")>>}}

FormatReports == {model_dump(MeetingNotesOutput(d).notes) : d \in FormatObjects}

FormatNames == {Val("Q1 Planning"), Val("Untitled Meeting")}
FormatDates ==
    {Val("2026-02-20"), Val("Unknown Date"), Val(""), Absent(""), None("")}

InitFormat ==
    /\ \E r \in FormatReports, n \in FormatNames, d \in FormatDates :
          LET bag == Bag(Val(Transcript(0, MinTranscriptLen, 0)), n, d,
                         Val("#team"), Val(anthropic))
          IN  /\ input_data = bag
              /\ memory = [bag EXCEPT !.validated_transcript = bag.transcript,
                                      !.validation_error = None(NoMsg),
                                      !.raw_extraction = Val(<<>>),
                                      !.meeting_notes = Val(r),
                                      !.parse_error = None(NoMsg)]
    /\ node = "format-slack-message"
    /\ run_state = "running"
    /\ path = <<[node |-> "validate-input", ok |-> TRUE],
                [node |-> "extract-meeting-data", ok |-> TRUE],
                [node |-> "parse-and-validate", ok |-> TRUE]>>
    /\ llm_calls = 1
    /\ llm_request = NoRequest
    /\ tool_calls = 0
    /\ tool_reply = NoToolReply
    /\ final_writes = 0
    /\ agent = RunningAgent

SpecFormat == InitFormat /\ [][RunFormatSlackMessage]_vars

(***************************************************************************)
(* compile_final_output on its own, next to the pipeline runs: a bag that  *)
(* holds a validated report and any slack_result, also one without the     *)
(* sent key and none at all                                                *)
(***************************************************************************)
OkResponse == [ok |-> TRUE, error |-> ""]

\* slack_result values with the tool call they come from
CompileCases ==
    {[channel |-> Val("#team"), calls |-> 1,
      reply  |-> ToolReply(FALSE, "", OkResponse),
      result |-> Val(SlackResult({"sent", "result"}, TRUE, "", OkResponse))],
     [channel |-> Val("#team"), calls |-> 1,
      reply  |-> ToolReply(TRUE, "connection refused", NoResponse),
      result |-> Val(SlackResult({"sent", "reason"}, FALSE, "connection refused",
                                 NoResponse))],
     [channel |-> Absent(""), calls |-> 0, reply |-> NoToolReply,
      result |-> Val(SlackResult({"reason"}, FALSE, "no_channel", NoResponse))],
     [channel |-> Absent(""), calls |-> 0, reply |-> NoToolReply,
      result |-> Val(SlackResult({}, FALSE, "", NoResponse))],
     [channel |-> Absent(""), calls |-> 0, reply |-> NoToolReply,
      result |-> Absent(SlackResult({}, FALSE, "", NoResponse))]}

InitCompile ==
    /\ \E r \in FormatReports, c \in CompileCases :
          LET bag == Bag(Val(Transcript(0, MinTranscriptLen, 0)), Val("Q1 Planning"),
                         Val("2026-02-20"), c.channel, Val(anthropic))
              fmt == format_slack_message(
                         [bag EXCEPT !.validated_transcript = bag.transcript,
                                     !.validation_error = None(NoMsg),
                                     !.slack_channel = GetOrNone(c.channel),
                                     !.raw_extraction = Val(<<>>),
                                     !.meeting_notes = Val(r),
                                     !.parse_error = None(NoMsg)])
          IN  /\ input_data = bag
              /\ memory = [fmt.mem EXCEPT !.slack_result = c.result]
              /\ tool_calls = c.calls
              /\ tool_reply = c.reply
    /\ node = "compile-final-output"
    /\ run_state = "running"
    /\ path = [i \in 1..5 |-> [node |-> nodes[i], ok |-> TRUE]]
    /\ llm_calls = 1
    /\ llm_request = NoRequest
    /\ final_writes = 0
    /\ agent = RunningAgent

SpecCompile == (Init \/ InitCompile) /\ [][Next]_vars

(***************************************************************************)
(* handle_error on its own, next to the pipeline runs: a bag in any state, *)
(* with or without recorded errors and results of earlier steps            *)
(***************************************************************************)
TooShortError == Msg("too_short", MinTranscriptLen - 1, <<>>)
NoJsonError == Msg("no_json_found", 0, Chars(<<"x", "x", " ", "x">>))
SchemaError == Msg("validation_error", 0, <<>>)

ErrorCases ==
    [validation_error : {Absent(NoMsg), None(NoMsg), Val(NoMsg), Val(TooShortError)},
     parse_error      : {Absent(NoMsg), None(NoMsg), Val(NoMsg), Val(NoJsonError),
                         Val(SchemaError)},
     raw_extraction   : {Absent(<<>>), None(<<>>), Val(Bare(BaseObj))},
     meeting_notes    : {Absent(EmptyDict),
                         Val(model_dump(MeetingNotesOutput(BaseObj).notes))},
     slack_result     : {Absent(SlackResult({}, FALSE, "", NoResponse)),
                         Val(SlackResult({"sent", "result"}, TRUE, "", OkResponse))}]

InitError ==
    /\ \E c \in ErrorCases :
          LET bag == Bag(Val(Transcript(0, MinTranscriptLen, 0)), Val("Q1 Planning"),
                         Val("2026-02-20"), Val("#team"), Val(anthropic))
          IN  /\ input_data = bag
              /\ memory = [bag EXCEPT !.validation_error = c.validation_error,
                                      !.parse_error = c.parse_error,
                                      !.raw_extraction = c.raw_extraction,
                                      !.meeting_notes = c.meeting_notes,
                                      !.slack_result = c.slack_result]
    /\ node = "handle-error"
    /\ run_state = "running"
    /\ path = <<>>
    /\ llm_calls = 0
    /\ llm_request = NoRequest
    /\ tool_calls = 0
    /\ tool_reply = NoToolReply
    /\ final_writes = 0
    /\ agent = RunningAgent

SpecError == (Init \/ InitError) /\ [][Next]_vars

(***************************************************************************)
(* Vocabulary of the properties                                            *)
(***************************************************************************)
Ran(n) == \E i \in 1..Len(path) : path[i].node = n
Succeeded(n) == \E i \in 1..Len(path) : path[i].node = n /\ path[i].ok
Failed(n) == \E i \in 1..Len(path) : path[i].node = n /\ ~path[i].ok
Stopped == run_state # "running"

Pipeline == SubSeq(nodes, 1, 6)
ErrorSources == {"validate-input", "extract-meeting-data", "parse-and-validate"}

\* the positions of the non-blank characters of a string
Inked(s) == {i \in 1..Len(s) : s[i] \notin Whitespace}
\* the string between its first and its last non-blank character
Trimmed(s) ==
    LET ink == Inked(s)
    IN  IF ink = {} THEN <<>>
        ELSE SubSeq(s, CHOOSE i \in ink : \A j \in ink : i <= j,
                       CHOOSE i \in ink : \A j \in ink : i >= j)

\* the transcript handed in is absent, None, empty, blank or too short
Unusable(slot) == slot.tag # "val" \/ Len(Trimmed(slot.v)) < MinTranscriptLen

(***************************************************************************)
(* C1: the nodes run in the order validate-input, extract-meeting-data,    *)
(* parse-and-validate, format-slack-message, post-to-slack,                *)
(* compile-final-output, each after its predecessor succeeded (after       *)
(* post-to-slack whatever its outcome); handle-error runs only right after *)
(* a failure of one of the first three, and nothing runs after it.         *)
(***************************************************************************)
C1_PipelineOrder ==
    /\ \A i \in 1..Len(path) :
          IF path[i].node = "handle-error"
          THEN /\ i > 1
               /\ i = Len(path)
               /\ path[i - 1].node \in ErrorSources
               /\ ~path[i - 1].ok
          ELSE /\ i <= Len(Pipeline)
               /\ path[i].node = Pipeline[i]
               /\ i > 1 => (path[i - 1].ok \/ path[i - 1].node = "post-to-slack")
    /\ run_state = "running" =>
          \/ node = "handle-error"
          \/ Len(path) < Len(Pipeline) /\ node = Pipeline[Len(path) + 1]

C1_Witness ==
    /\ Len(path) = 6
    /\ path[6].node = "compile-final-output"
    /\ memory.slack_result.v.reason = "connection refused"

(***************************************************************************)
(* C2: every run stops, at compile-final-output or at handle-error, with   *)
(* final_output written exactly once; at compile-final-output the output   *)
(* is a full report, at handle-error it is the fixed error object.         *)
(***************************************************************************)
ReportKeys == {"summary", "attendees", "decisions", "action_items", "blockers",
               "follow_ups", "slack_message_sent"}

IsStrList(v) == v.t = "list" /\ v.li = <<>> /\ \A i \in 1..Len(v.l) : v.l[i].t = "str"
IsItemList(v) ==
    /\ v.t = "list" /\ v.l = <<>>
    /\ \A i \in 1..Len(v.li) :
          /\ DOMAIN v.li[i] = {"task", "owner", "due", "priority"}
          /\ \A k \in DOMAIN v.li[i] : v.li[i][k].t = "str"

FullReport(out) ==
    /\ DOMAIN out = ReportKeys
    /\ out["summary"].t = "str"
    /\ \A k \in {"attendees", "decisions", "blockers", "follow_ups"} : IsStrList(out[k])
    /\ IsItemList(out["action_items"])
    /\ out["slack_message_sent"].t = "bool"

ErrorShape(out) ==
    /\ DOMAIN out = ReportKeys \cup {"error", "error_message"}
    /\ out["error"] = JBool(TRUE)
    /\ out["error_message"].t = "str"
    /\ out["summary"] = JStr("")
    /\ \A k \in {"attendees", "decisions", "action_items", "blockers", "follow_ups"} :
          out[k] = JList(<<>>)
    /\ out["slack_message_sent"] = JBool(FALSE)

C2_StopsSafely ==
    /\ final_writes <= 1
    /\ ~Stopped => (final_writes = 0 /\ memory.final_output.tag = "absent")
    /\ Stopped =>
          /\ run_state = "completed"
          /\ node \in terminal_nodes
          /\ path[Len(path)].node = node
          /\ final_writes = 1
          /\ memory.final_output.tag = "val"
          /\ node = "compile-final-output" => FullReport(memory.final_output.v)
          /\ node = "handle-error" => ErrorShape(memory.final_output.v)

\* A run that has not stopped is at a node, whose step can be taken (a node
\* function returns or raises on every bag, and every collaborator replies),
\* no node runs twice, and no run takes more steps than there are nodes: so
\* every run stops, and it stops as C2_StopsSafely says.
C2_Terminates ==
    /\ C2_StopsSafely
    /\ ~Stopped => (\E i \in 1..Len(nodes) : node = nodes[i]) /\ ~Ran(node)
    /\ LlmReplies # {} /\ ToolReplies # {}
    /\ Len(path) <= Len(nodes)

C2_Witness ==
    /\ run_state = "completed"
    /\ node = "handle-error"
    /\ Failed("extract-meeting-data")
    /\ final_writes = 1

(***************************************************************************)
(* C3: a transcript that is absent, empty, blank or shorter than 50        *)
(* characters once trimmed makes validate_input fail with a validation     *)
(* error recorded; the LLM is never called in that run, which goes to      *)
(* handle-error.                                                           *)
(***************************************************************************)
C3_ShortTranscriptRejected ==
    (Unusable(input_data.transcript) /\ path # <<>>) =>
        /\ path[1] = [node |-> "validate-input", ok |-> FALSE]
        /\ memory.validation_error.tag = "val"
        /\ llm_calls = 0
        /\ ~Ran("extract-meeting-data")
        /\ node = "handle-error"
        /\ Len(path) >= 2 => path[2].node = "handle-error"

C3_Witness ==
    /\ input_data.transcript.tag = "val"
    /\ Len(input_data.transcript.v) > MinTranscriptLen
    /\ Len(Trimmed(input_data.transcript.v)) = MinTranscriptLen - 1
    /\ Stopped

(***************************************************************************)
(* C4: with a usable transcript validate_input succeeds whatever the       *)
(* provider alias is, and stores the lower-cased alias when the registry   *)
(* has it and "anthropic" otherwise; the stored provider is a registry key *)
(* and the LLM request built from the bag names the model registered for   *)
(* it.                                                                     *)
(***************************************************************************)
ExpectedProvider(alias) ==
    IF alias.tag = "val" /\ Lower(alias.v) \in DOMAIN MODEL_REGISTRY
    THEN Lower(alias.v) ELSE anthropic

GivenOr(slot, placeholder) ==
    IF slot.tag = "val" /\ slot.v # "" THEN slot ELSE Val(placeholder)

C5_NormalizedState ==
    Succeeded("validate-input") =>
        /\ memory.validated_transcript = Val(Trimmed(input_data.transcript.v))
        /\ Len(memory.validated_transcript.v) >= MinTranscriptLen
        /\ memory.meeting_name = GivenOr(input_data.meeting_name, "Untitled Meeting")
        /\ memory.meeting_date = GivenOr(input_data.meeting_date, "Unknown Date")
        /\ memory.validation_error.tag = "none"

C5_Witness ==
    /\ Succeeded("validate-input")
    /\ input_data.validation_error.tag = "val"
    /\ input_data.meeting_name = Val("")
    /\ input_data.meeting_date.tag = "none"
    /\ Len(input_data.transcript.v) > Len(memory.validated_transcript.v)

(***************************************************************************)
(* Vocabulary of the parser's properties                                   *)
(***************************************************************************)
ParseRan == Ran("parse-and-validate")
ParseOk == Succeeded("parse-and-validate")
ParseFailedRun == Failed("parse-and-validate")

\* what _extract_json makes of the raw LLM text in the bag
Parsed == _extract_json(memory.raw_extraction.v)

\* the action items the LLM's object carries
GivenItems(obj) ==
    IF "action_items" \in DOMAIN obj THEN obj["action_items"].li ELSE <<>>

Priorities == {"high", "medium", "low"}

\* an action item of the object carries a priority that is not one of the three
HasBadPriority(obj) ==
    \E i \in 1..Len(GivenItems(obj)) :
        LET it == GivenItems(obj)[i]
        IN  /\ "priority" \in DOMAIN it
            /\ ~(it["priority"].t = "str" /\ it["priority"].s \in Priorities)

\* the text has no opening brace or no closing brace
NoBraces(raw) ==
    \/ \A i \in 1..Len(raw) : raw[i].c # "{"
    \/ \A i \in 1..Len(raw) : raw[i].c # "}"

StoredItems == memory.meeting_notes.v["action_items"].li

(***************************************************************************)
(* C6: when the JSON of the LLM output has an action item whose priority   *)
(* is not high, medium or low, parse_and_validate_output raises and stores *)
(* no report; every action item of a stored report has one of the three    *)
(* priorities.                                                             *)
(***************************************************************************)
C6_BadPriorityRejected ==
    /\ (ParseRan /\ Parsed.status = "ok" /\ HasBadPriority(Parsed.obj)) =>
          /\ ParseFailedRun
          /\ memory.meeting_notes.tag = "absent"
          /\ memory.parse_error.tag = "val"
    /\ memory.meeting_notes.tag = "val" =>
          \A i \in 1..Len(StoredItems) :
              /\ StoredItems[i]["priority"].t = "str"
              /\ StoredItems[i]["priority"].s \in Priorities

C6_Witness ==
    /\ ParseFailedRun
    /\ Parsed.status = "ok"
    /\ Len(GivenItems(Parsed.obj)) = 1
    /\ GivenItems(Parsed.obj)[1] = DictSet(GoodItem, "priority", JStr("high\n"))
    /\ node = "handle-error"

(***************************************************************************)
(* C7: a raw text without a JSON object, with malformed JSON or without    *)
(* the summary field makes parse_and_validate_output raise with            *)
(* parse_error recorded and meeting_notes not written; a successful parse  *)
(* writes meeting_notes and sets parse_error to None.                      *)
(***************************************************************************)
C7_ParseFailureRecorded ==
    ParseRan =>
        /\ (\/ NoBraces(memory.raw_extraction.v)
            \/ Parsed.status \in {"nojson", "malformed"}
            \/ "summary" \notin DOMAIN Parsed.obj) => ParseFailedRun
        /\ ParseFailedRun =>
              /\ memory.parse_error.tag = "val"
              /\ memory.meeting_notes.tag = "absent"
        /\ ParseOk =>
              /\ memory.meeting_notes.tag = "val"
              /\ memory.parse_error.tag = "none"

C7_Witness ==
    /\ ParseFailedRun
    /\ Parsed.status = "malformed"
    /\ memory.parse_error.tag = "val"
    /\ Stopped

(***************************************************************************)
(* C8: every stored report has a non-empty summary, and every action item  *)
(* in it a non-empty task and a non-empty owner.                           *)
(***************************************************************************)
C8_NonEmptyFields ==
    memory.meeting_notes.tag = "val" =>
        /\ memory.meeting_notes.v["summary"].s # ""
        /\ \A i \in 1..Len(StoredItems) :
              /\ StoredItems[i]["task"].s # ""
              /\ StoredItems[i]["owner"].s # ""

(***************************************************************************)
(* C9: the report stored by parse_and_validate_output has the delivery     *)
(* flag false whatever the raw text says, and a final output has it true   *)
(* only when compile_final_output wrote it.                                *)
(***************************************************************************)
C9_FlagOnlyFromCompiler ==
    /\ memory.meeting_notes.tag = "val" =>
          memory.meeting_notes.v["slack_message_sent"] = JBool(FALSE)
    /\ (/\ memory.final_output.tag = "val"
        /\ memory.final_output.v["slack_message_sent"] = JBool(TRUE)) =>
          node = "compile-final-output"

(***************************************************************************)
(* C10: a stored report is the LLM's object with the defaults filled in:   *)
(* due "TBD" and priority "medium" for an action item without them, the    *)
(* empty sequence for a missing list; what the object gives is kept as it  *)
(* is and in its order.                                                    *)
(***************************************************************************)
ItemDefault(field) ==
    CASE field = "due" -> JStr("TBD") [] field = "priority" -> JStr("medium")
      [] OTHER -> JNull

C10_DefaultsApplied ==
    ParseOk =>
        LET obj   == Parsed.obj
            notes == memory.meeting_notes.v
        IN  /\ notes["summary"] = obj["summary"]
            /\ \A k \in ListKeys :
                  notes[k] = IF k \in DOMAIN obj THEN obj[k] ELSE JList(<<>>)
            /\ notes["action_items"].t = "list"
            /\ Len(StoredItems) = Len(GivenItems(obj))
            /\ \A i \in 1..Len(StoredItems) :
                  /\ DOMAIN StoredItems[i] = {"task", "owner", "due", "priority"}
                  /\ \A f \in DOMAIN StoredItems[i] :
                        StoredItems[i][f] =
                            IF f \in DOMAIN GivenItems(obj)[i]
                            THEN GivenItems(obj)[i][f] ELSE ItemDefault(f)

C10_Witness ==
    /\ ParseOk
    /\ GivenItems(Parsed.obj) = <<BareItem, GoodItem>>
    /\ StoredItems[1]["due"] = JStr("TBD")
    /\ StoredItems[1]["priority"] = JStr("medium")
    /\ StoredItems[2] = GoodItem

(***************************************************************************)
(* Vocabulary of the extraction properties                                 *)
(***************************************************************************)
RawText == memory.raw_extraction.v

\* 1-based places of the first "{" and the last "}" of a text, 0 when absent
FirstOpen(raw) ==
    IF \A i \in 1..Len(raw) : raw[i].c # "{" THEN 0
    ELSE CHOOSE i \in 1..Len(raw) :
            raw[i].c = "{" /\ \A j \in 1..(i - 1) : raw[j].c # "{"
LastClose(raw) ==
    IF \A i \in 1..Len(raw) : raw[i].c # "}" THEN 0
    ELSE CHOOSE i \in 1..Len(raw) :
            raw[i].c = "}" /\ \A j \in (i + 1)..Len(raw) : raw[j].c # "}"

\* the text from the first "{" to the last "}", empty when they are out of order
BetweenBraces(raw) ==
    IF FirstOpen(raw) = 0 \/ FirstOpen(raw) > LastClose(raw) THEN <<>>
    ELSE SubSeq(raw, FirstOpen(raw), LastClose(raw))

\* a text without its fence markers
Unfenced(s) == ReplaceFence(FenceSub(s))

(***************************************************************************)
(* C11: _extract_json gives the JSON parse of the text between the first   *)
(* "{" and the last "}" once the fence markers are removed, whatever       *)
(* brace-free prose stands around the object; it fails with no-JSON-found  *)
(* exactly when the text has no "{" or no "}", and with a malformed-JSON   *)
(* error when the text between the braces does not parse.                  *)
(***************************************************************************)
C11_ExtractJson ==
    memory.raw_extraction.tag = "val" =>
        LET core == json_loads(Unfenced(BetweenBraces(RawText)))
        IN  /\ Parsed.status = "nojson" <=> NoBraces(RawText)
            /\ (~NoBraces(RawText) /\ core.ok) =>
                  Parsed = [status |-> "ok", obj |-> core.obj]
            /\ (~NoBraces(RawText) /\ ~core.ok) => Parsed.status = "malformed"
            /\ \A d \in LlmObjects :
                  BetweenBraces(RawText) = Bare(d) =>
                      Parsed = [status |-> "ok", obj |-> d]
            /\ (ParseRan /\ Parsed.status = "nojson") =>
                  /\ ParseFailedRun
                  /\ memory.parse_error.v.kind = "no_json_found"
            /\ (ParseRan /\ Parsed.status = "malformed") =>
                  /\ ParseFailedRun
                  /\ memory.parse_error.v.kind = "json_decode_error"

C11_Witness ==
    /\ ParseOk
    /\ RawText = Chars(<<"x", " ">> \o Fence \o LangTag) \o Bare(BaseObj)
                    \o Chars(Fence \o <<" ", "x">>)
    /\ Parsed.obj = BaseObj
    /\ memory.meeting_notes.tag = "val"

(***************************************************************************)
(* C12: when _extract_json yields an object from a text, it yields the     *)
(* same object from that text wrapped in an opening fence (with or without *)
(* the json tag) and a closing fence, and parse_and_validate_output stores *)
(* the same report for both.                                               *)
(***************************************************************************)
FenceWraps ==
    {[pre |-> Chars(open), post |-> Chars(close)] :
        open  \in {Fence \o LangTag \o <<"\n">>, Fence \o <<"\n">>,
                   Fence \o LangTag, Fence},
        close \in {<<"\n">> \o Fence, Fence, <<"\n">> \o Fence \o <<"\n">>}}

InFences(w, raw) == w.pre \o raw \o w.post

C12_FenceInvariant ==
    (memory.raw_extraction.tag = "val" /\ Parsed.status = "ok") =>
        \A w \in FenceWraps :
            LET fenced == InFences(w, RawText)
                again  == parse_and_validate_output(
                              [memory EXCEPT !.raw_extraction = Val(fenced)])
            IN  /\ _extract_json(fenced) = Parsed
                /\ ParseRan =>
                      /\ again.ok = ParseOk
                      /\ again.mem.meeting_notes = memory.meeting_notes
                      /\ again.mem.parse_error = memory.parse_error

C12_Witness ==
    /\ ParseOk
    /\ RawText = Chars(<<"x", "x", ":", "\n">>) \o Bare(BaseObj)
    /\ Parsed.obj = BaseObj
    /\ \A w \in FenceWraps : _extract_json(InFences(w, RawText)).obj = BaseObj
    /\ memory.meeting_notes.v["summary"] = JStr("ok")

(***************************************************************************)
(* Vocabulary of the Slack block properties                                *)
(***************************************************************************)
Blocks == memory.slack_payload.v.blocks
Formatted == Succeeded("format-slack-message")

Roles(bs) == [i \in 1..Len(bs) |-> bs[i].role]
HasRole(r) == \E i \in 1..Len(Blocks) : Blocks[i].role = r
CountRole(r) == Cardinality({i \in 1..Len(Blocks) : Blocks[i].role = r})

Categories == <<"decisions", "action_items", "blockers", "follow_ups">>

\* the entries of a category of the stored report
Entries(cat) ==
    IF cat = "action_items" THEN memory.meeting_notes.v[cat].li
    ELSE memory.meeting_notes.v[cat].l

(***************************************************************************)
(* C13: the blocks built for a validated report hold the section of a      *)
(* category (Key Decisions, Action Items, Blockers, Follow-ups) if and     *)
(* only if that category of the report is non-empty, and hold the summary  *)
(* section in every case.                                                  *)
(***************************************************************************)
C13_SectionsIffNonEmpty ==
    /\ (Ran("format-slack-message") /\ memory.meeting_notes.tag = "val") => Formatted
    /\ Formatted =>
          /\ CountRole("summary") = 1
          /\ \A i \in 1..Len(Categories) :
                /\ HasRole(Categories[i]) <=> Entries(Categories[i]) # <<>>
                /\ CountRole(Categories[i]) <= 1
          /\ HasRole("action_item") <=> Entries("action_items") # <<>>

C13_Witness ==
    /\ Formatted
    /\ Entries("decisions") # <<>>
    /\ Entries("blockers") = <<>>
    /\ Entries("action_items") = <<>>
    /\ Entries("follow_ups") # <<>>
    /\ HasRole("decisions") /\ HasRole("follow_ups")
    /\ ~HasRole("blockers") /\ ~HasRole("action_items")

(***************************************************************************)
(* C14: the blocks of a validated report come in a fixed shape, each block *)
(* with a type: the header with the meeting name; the metadata section     *)
(* exactly when the date is non-empty and not "Unknown Date" or there are  *)
(* attendees; a divider and the summary; for each non-empty category, in   *)
(* the order decisions, action items, blockers, follow-ups, a divider and  *)
(* the category's block (for action items the heading and one block per    *)
(* item, in report order); a divider and the footer context block last.    *)
(***************************************************************************)
HasMeta ==
    \/ /\ memory.meeting_date.tag = "val"
       /\ memory.meeting_date.v # ""
       /\ memory.meeting_date.v # "Unknown Date"
    \/ memory.meeting_notes.v["attendees"].l # <<>>

CategoryRoles(cat) ==
    IF Entries(cat) = <<>> THEN <<>>
    ELSE <<"divider", cat>>
         \o (IF cat = "action_items"
             THEN [i \in 1..Len(Entries(cat)) |-> "action_item"] ELSE <<>>)

ExpectedRoles ==
    <<"header">> \o (IF HasMeta THEN <<"meta">> ELSE <<>>)
    \o <<"divider", "summary">>
    \o CategoryRoles("decisions") \o CategoryRoles("action_items")
    \o CategoryRoles("blockers") \o CategoryRoles("follow_ups")
    \o <<"divider", "footer">>

TypeOfRole(r) ==
    CASE r = "header" -> "header" [] r = "divider" -> "divider"
      [] r = "footer" -> "context" [] OTHER -> "section"

C14_BlockShape ==
    Formatted =>
        /\ Roles(Blocks) = ExpectedRoles
        /\ \A i \in 1..Len(Blocks) :
              /\ Blocks[i].type # ""
              /\ Blocks[i].type = TypeOfRole(Blocks[i].role)
        /\ Blocks[1].parts = <<memory.meeting_name.v>>
        /\ Blocks[Len(Blocks)].type = "context"
        /\ Entries("action_items") # <<>> =>
              LET h == CHOOSE i \in 1..Len(Blocks) : Blocks[i].role = "action_items"
              IN  \A k \in 1..Len(Entries("action_items")) :
                      /\ Blocks[h + k].parts[1] = Entries("action_items")[k]["task"].s
                      /\ Blocks[h + k].parts[2] = Entries("action_items")[k]["owner"].s
                      /\ Blocks[h + k].parts[3] = Entries("action_items")[k]["due"].s

C14_Witness ==
    /\ Formatted
    /\ memory.meeting_date.v = "Unknown Date"
    /\ Entries("action_items") = <<DumpItem(ActionItem(BareItem)), GoodItem>>
    /\ Roles(Blocks) = <<"header", "divider", "summary", "divider", "action_items",
                         "action_item", "action_item", "divider", "blockers",
                         "divider", "footer">>

(***************************************************************************)
(* Vocabulary of the delivery properties                                   *)
(***************************************************************************)
\* the caller gave no channel: the key is absent, None or the empty string
NoChannelGiven == input_data.slack_channel.tag # "val" \/ input_data.slack_channel.v = ""

Posted == Ran("post-to-slack")
Compiled == Succeeded("compile-final-output")

NoChannelResult == SlackResult({"sent", "reason"}, FALSE, "no_channel", NoResponse)

(***************************************************************************)
(* C15: without a delivery channel (absent or empty) post_to_slack never   *)
(* calls the delivery tool, records slack_result = {sent: false, reason:   *)
(* "no_channel"}, does not fail, and the run goes on to                    *)
(* compile-final-output.                                                   *)
(***************************************************************************)
C15_NoChannelSkipsDelivery ==
    NoChannelGiven =>
        /\ tool_calls = 0
        /\ Posted =>
              /\ Succeeded("post-to-slack")
              /\ memory.slack_result = Val(NoChannelResult)
              /\ node = "compile-final-output"
              /\ ~Ran("handle-error")
              /\ Stopped => Compiled

C15_Witness ==
    /\ input_data.slack_channel = Val("")
    /\ Posted
    /\ Compiled
    /\ Stopped
    /\ tool_calls = 0
    /\ memory.slack_result.v.reason = "no_channel"

\* the delivery tool was called and raised
ToolRaised == tool_calls > 0 /\ tool_reply.raised

FinalOutput == memory.final_output.v

\* the final output is the stored report with the delivery flag set to sent
ReportWithFlag(sent) ==
    /\ memory.final_output.tag = "val"
    /\ memory.meeting_notes.tag = "val"
    /\ FullReport(FinalOutput)
    /\ \A k \in ReportKeys \ {"slack_message_sent"} :
          FinalOutput[k] = memory.meeting_notes.v[k]
    /\ FinalOutput["slack_message_sent"] = JBool(sent)

(***************************************************************************)
(* C16: a delivery failure is not fatal: when a channel is given and the   *)
(* delivery tool raises, post_to_slack does not raise, it records          *)
(* slack_result = {sent: false, reason: the error's message}, and the run  *)
(* ends at compile-final-output, never at handle-error, with the whole     *)
(* parsed report and the delivery flag false in the final output.          *)
(***************************************************************************)
C16_DeliveryFailureNotFatal ==
    ToolRaised =>
        /\ ~NoChannelGiven
        /\ Succeeded("post-to-slack")
        /\ memory.slack_result =
              Val(SlackResult({"sent", "reason"}, FALSE, tool_reply.error, NoResponse))
        /\ node = "compile-final-output"
        /\ ~Ran("handle-error")
        /\ Stopped =>
              /\ run_state = "completed"
              /\ Compiled
              /\ ReportWithFlag(FALSE)

C16_Witness ==
    /\ ToolRaised
    /\ tool_reply.error = "connection refused"
    /\ Stopped
    /\ Compiled
    /\ FinalOutput["summary"] = JStr("ok")
    /\ FinalOutput["slack_message_sent"] = JBool(FALSE)

\* the sent flag of the stored slack_result; a missing flag or result is false
SentFlag ==
    /\ memory.slack_result.tag = "val"
    /\ "sent" \in memory.slack_result.v.keys
    /\ memory.slack_result.v.sent

\* the delivery tool was called and returned
ToolReturned == tool_calls > 0 /\ ~tool_reply.raised

(***************************************************************************)
(* C17: the delivery flag of the final success output is the sent flag of  *)
(* slack_result: true if and only if a channel was given and the delivery  *)
(* tool returned without raising, slack_result then being {sent: true,     *)
(* result: the tool's response}; false in every other run, and false when  *)
(* slack_result has no sent flag.                                          *)
(***************************************************************************)
C17_FlagIsSentFlag ==
    Compiled =>
        /\ FinalOutput["slack_message_sent"] = JBool(SentFlag)
        /\ SentFlag <=> (~NoChannelGiven /\ ToolReturned)
        /\ SentFlag =>
              memory.slack_result =
                  Val(SlackResult({"sent", "result"}, TRUE, "", tool_reply.response))

C17_Witness ==
    /\ Compiled
    /\ Len(path) = 6
    /\ llm_request # NoRequest
    /\ ToolReturned
    /\ tool_reply.response.ok
    /\ FinalOutput["slack_message_sent"] = JBool(TRUE)

(***************************************************************************)
(* Vocabulary of the error output properties                               *)
(***************************************************************************)
Handled == Ran("handle-error")

\* bags that differ from the current one in what earlier steps produced
OtherProducts ==
    {[memory EXCEPT !.raw_extraction = r, !.meeting_notes = n, !.slack_result = s] :
        r \in {Absent(<<>>), Val(Bare(BaseObj))},
        n \in {Absent(EmptyDict), Val(model_dump(MeetingNotesOutput(BaseObj).notes))},
        s \in {Absent(SlackResult({}, FALSE, "", NoResponse)),
               Val(SlackResult({"sent", "result"}, TRUE, "", OkResponse))}}

(***************************************************************************)
(* C18: whatever the state bag holds, handle_error stores as final_output  *)
(* an object with error = true, a string error_message, summary = "", the  *)
(* five lists empty and the delivery flag false; the raw extraction, a     *)
(* stored report and a delivery result have no part in it.                 *)
(***************************************************************************)
C18_ErrorOutputFixed ==
    /\ At("handle-error") =>
          LET out == handle_error(memory)
          IN  /\ out.ok
              /\ out.mem.final_output.tag = "val"
              /\ ErrorShape(out.mem.final_output.v)
              /\ \A other \in OtherProducts :
                    handle_error(other).mem.final_output = out.mem.final_output
    /\ Handled =>
          /\ Succeeded("handle-error")
          /\ memory.final_output.tag = "val"
          /\ ErrorShape(FinalOutput)
          /\ FinalOutput = handle_error(memory).mem.final_output.v

C18_Witness ==
    /\ Handled
    /\ path = <<[node |-> "handle-error", ok |-> TRUE]>>
    /\ memory.meeting_notes.tag = "val"
    /\ memory.raw_extraction.tag = "val"
    /\ memory.slack_result.tag = "val"
    /\ ErrorShape(FinalOutput)

\* a non-empty error string is held by the slot
Recorded(slot) == slot.tag = "val" /\ slot.v # NoMsg

(***************************************************************************)
(* C19: the error_message of the error output is the input-validation      *)
(* error when one is recorded, else the parse error when one is recorded,  *)
(* else the generic fallback; so it is the validation error after a failed *)
(* validate_input, the parse error after a failed parse_and_validate and   *)
(* the fallback after a failed extraction call.                            *)
(***************************************************************************)
C19_ErrorPrecedence ==
    Handled =>
        LET msg == FinalOutput["error_message"]
        IN  /\ Recorded(memory.validation_error) => msg = JMsg(memory.validation_error.v)
            /\ (~Recorded(memory.validation_error) /\ Recorded(memory.parse_error)) =>
                  msg = JMsg(memory.parse_error.v)
            /\ (~Recorded(memory.validation_error) /\ ~Recorded(memory.parse_error)) =>
                  msg = JMsg(UnknownError)
            /\ Failed("validate-input") =>
                  /\ msg = JMsg(memory.validation_error.v)
                  /\ msg.m.kind \in {"empty", "too_short"}
            /\ Failed("parse-and-validate") =>
                  /\ msg = JMsg(memory.parse_error.v)
                  /\ msg.m.kind \in {"no_json_found", "json_decode_error",
                                     "validation_error"}
            /\ Failed("extract-meeting-data") => msg = JMsg(UnknownError)

C19_Witness ==
    /\ Handled
    /\ memory.validation_error = Val(TooShortError)
    /\ memory.parse_error = Val(NoJsonError)
    /\ FinalOutput["error_message"] = JMsg(TooShortError)

(***************************************************************************)
(* C20: within one invocation the LLM completion is called exactly once    *)
(* when the run reaches extract-meeting-data and not at all otherwise, and *)
(* the delivery tool exactly once when the run reaches post-to-slack with  *)
(* a channel and not at all otherwise; a call that raises is not repeated. *)
(***************************************************************************)
C20_CalledAtMostOnce ==
    /\ llm_calls = IF Ran("extract-meeting-data") THEN 1 ELSE 0
    /\ tool_calls = IF Posted /\ ~NoChannelGiven THEN 1 ELSE 0
    /\ Failed("extract-meeting-data") => llm_calls = 1 /\ node = "handle-error"
    /\ ToolRaised => tool_calls = 1
    /\ Cardinality({i \in 1..Len(path) : path[i].node = "extract-meeting-data"}) <= 1
    /\ Cardinality({i \in 1..Len(path) : path[i].node = "post-to-slack"}) <= 1

C20_Witness ==
    /\ Stopped
    /\ Compiled
    /\ ToolRaised
    /\ llm_calls = 1
    /\ tool_calls = 1

(***************************************************************************)
(* C21: the report stored by the parser is not modified afterwards:        *)
(* format_slack_message, post_to_slack and compile_final_output leave      *)
(* meeting_notes as it is, and the output of compile_final_output has the  *)
(* summary and the five lists of the stored report, differing from it at   *)
(* most in the delivery flag.                                              *)
(***************************************************************************)
AfterParser == {"format-slack-message", "post-to-slack", "compile-final-output"}

ReportKept ==
    (run_state = "running" /\ node \in AfterParser) =>
        memory'.meeting_notes = memory.meeting_notes

CompiledFromReport ==
    Compiled =>
        /\ DOMAIN FinalOutput = DOMAIN memory.meeting_notes.v \cup {"slack_message_sent"}
        /\ \A k \in DOMAIN FinalOutput \ {"slack_message_sent"} :
              FinalOutput[k] = memory.meeting_notes.v[k]

C21_ReportImmutable == [][ReportKept]_vars /\ []CompiledFromReport

C21_Witness ==
    /\ Compiled
    /\ Len(path) = 6
    /\ memory.meeting_notes.v["slack_message_sent"] = JBool(FALSE)
    /\ FinalOutput["slack_message_sent"] = JBool(TRUE)
    /\ FinalOutput["decisions"] = memory.meeting_notes.v["decisions"]
    /\ FinalOutput["decisions"].l # <<>>

(***************************************************************************)
(* C22: every parse or schema failure (no JSON found, malformed JSON,      *)
(* schema validation) records an error message that carries the start of   *)
(* the raw LLM text, cut to the snippet length, and the error output       *)
(* reports that message as error_message.                                  *)
(***************************************************************************)
C22_SnippetInParseError ==
    ParseFailedRun =>
        /\ memory.parse_error.tag = "val"
        /\ memory.parse_error.v.snip = Take(RawText, SnippetLen)
        /\ Handled => FinalOutput["error_message"] = JMsg(memory.parse_error.v)

(***************************************************************************)
(* agent.py: calls on a MeetingNotesAgent instance.  A coroutine runs      *)
(* without interruption up to an await that suspends; start() and stop()   *)
(* hold no such await, trigger_and_wait and run() suspend in               *)
(* executor.execute alone.                                                 *)
(***************************************************************************)
MaxCalls == 4

pipeline == <<input_data, memory, node, run_state, path, llm_calls,
              llm_request, tool_calls, tool_reply, final_writes>>

Callers == DOMAIN agent.task

CanCall(c) == agent.task[c].pc = "idle" /\ agent.calls < MaxCalls

Awaits(c, op) == agent.task[c].pc = "executing" /\ agent.task[c].op = op

StartEntry(c, before, after) ==
    Entry("start", c, after.executor,
          IF after.setups > before.setups THEN "built" ELSE "kept")

StopEntry(c, after) ==
    Entry("stop", c, after.executor,
          IF after.executor = 0 /\ after.event_bus = 0
          THEN "stopped" ELSE "kept")

RunOutcome(outcome) ==
    IF ~RunResult(outcome).returned THEN "raised"
    ELSE IF RunResult(outcome).success THEN "success"
    ELSE RunResult(outcome).error

CallStart ==
    /\ \E c \in Callers :
          /\ CanCall(c)
          /\ agent' = Logged(Called(start(agent)),
                             <<StartEntry(c, agent, start(agent))>>)
    /\ UNCHANGED pipeline

CallStop ==
    /\ \E c \in Callers :
          /\ CanCall(c)
          /\ agent' = Logged(Called(stop(agent)),
                             <<StopEntry(c, stop(agent))>>)
    /\ UNCHANGED pipeline

CallTriggerAndWait ==
    /\ \E c \in Callers :
          /\ CanCall(c)
          /\ LET err == trigger_and_wait(agent)
             IN  agent' =
                   IF err = ""
                   THEN Logged(Called(Executing(agent, c, "trigger")),
                               <<Entry("trigger", c, agent.executor, "invoked")>>)
                   ELSE Logged(Called(agent),
                               <<Entry("trigger", c, agent.executor, err)>>)
    /\ UNCHANGED pipeline

TriggerAndWaitReturns ==
    /\ \E c \in Callers, outcome \in ExecuteOutcomes :
          /\ Awaits(c, "trigger")
          /\ agent' = Logged(Returned(agent, c),
                             <<Entry("trigger_end", c,
                                     agent.task[c].executor, outcome)>>)
    /\ UNCHANGED pipeline

CallValidate ==
    /\ \E c \in Callers :
          /\ CanCall(c)
          /\ agent' = Logged(Called(agent),
                             <<Entry("validate", c, agent.executor,
                                     IF validate.valid THEN "valid"
                                     ELSE "invalid")>>)
    /\ UNCHANGED pipeline

CallRun ==
    /\ \E c \in Callers :
          /\ CanCall(c)
          /\ LET started == start(agent)
                 err == trigger_and_wait(started)
                 head == <<Entry("run", c, agent.executor, "called"),
                           StartEntry(c, agent, started)>>
             IN  agent' =
                   IF err = ""
                   THEN Logged(Called(Executing(started, c, "run")),
                               head \o <<Entry("trigger", c, started.executor,
                                               "invoked")>>)
                   ELSE Logged(Called(stop(started)),
                               head \o <<Entry("trigger", c, started.executor, err),
                                         StopEntry(c, stop(started)),
                                         Entry("run_end", c,
                                               stop(started).executor, "raised")>>)
    /\ UNCHANGED pipeline

RunReturns ==
    /\ \E c \in Callers, outcome \in ExecuteOutcomes :
          /\ Awaits(c, "run")
          /\ LET stopped == stop(Returned(agent, c))
             IN  agent' = Logged(stopped,
                                 <<Entry("trigger_end", c,
                                         agent.task[c].executor, outcome),
                                   StopEntry(c, stopped),
                                   Entry("run_end", c, stopped.executor,
                                         RunOutcome(outcome))>>)
    /\ UNCHANGED pipeline

\* the pipeline's variables stay at the start of one run
InitAgent(callers) ==
    /\ memory = Bag(Val(Transcript(0, MinTranscriptLen, 0)), Absent(""),
                    Absent(""), Absent(""), Absent(""))
    /\ input_data = memory
    /\ node = entry_node
    /\ run_state = "running"
    /\ path = <<>>
    /\ llm_calls = 0
    /\ llm_request = NoRequest
    /\ tool_calls = 0
    /\ tool_reply = NoToolReply
    /\ final_writes = 0
    /\ agent = MeetingNotesAgent(callers)

\* start(), stop(), trigger_and_wait and validate() called in any order by
\* two tasks
NextLifecycle ==
    \/ CallValidate
    \/ CallStart
    \/ CallStop
    \/ CallTriggerAndWait
    \/ TriggerAndWaitReturns

SpecLifecycle == InitAgent({1, 2}) /\ [][NextLifecycle]_vars

\* run() called again and again by one task
NextRun ==
    \/ CallRun
    \/ RunReturns

SpecRun == InitAgent(DOMAIN default_agent.task) /\ [][NextRun]_vars

\* run() called by two tasks on the same instance
SpecConcurrent == InitAgent({1, 2}) /\ [][NextRun]_vars

(***************************************************************************)
(* Properties of the agent instance                                        *)
(***************************************************************************)
InFlight(c) == Awaits(c, "run")

LogHas(op, outcome) ==
    \E i \in 1..Len(agent.log) :
        agent.log[i].op = op /\ agent.log[i].outcome = outcome

\* C23: two run() calls in flight on one instance share no mutable state:
\* they run on different executors, the completion of one leaves the
\* instance holding the executor the other runs on, and no call fails with
\* "Agent not started".
C23_RunsShareNothing ==
    /\ \A a \in Callers, b \in Callers :
          (a # b /\ InFlight(a) /\ InFlight(b))
              => agent.task[a].executor # agent.task[b].executor
    /\ \A a \in Callers :
          InFlight(a) => /\ agent.executor = agent.task[a].executor
                         /\ agent.event_bus = agent.task[a].executor
    /\ ~LogHas("trigger", NotStarted)

\* the instance is started at entry i: a start() came before with no stop()
\* since
StartedAt(i) ==
    \E j \in 1..(i - 1) :
        /\ agent.log[j].op = "start"
        /\ \A k \in (j + 1)..(i - 1) : agent.log[k].op # "stop"

LogEntries(op) == {i \in 1..Len(agent.log) : agent.log[i].op = op}

Invocations == {i \in LogEntries("trigger") : agent.log[i].outcome = "invoked"}

\* C28: in any sequence of start(), stop() and trigger_and_wait() calls,
\* trigger_and_wait invokes the executor exactly when the instance is
\* started and otherwise raises the "Agent not started" RuntimeError without
\* invoking anything; start() on a started instance builds no second
\* executor.
C28_Lifecycle ==
    /\ \A i \in LogEntries("trigger") :
          IF StartedAt(i)
          THEN /\ agent.log[i].outcome = "invoked"
               /\ agent.log[i].executor > 0
          ELSE agent.log[i].outcome = NotStarted
    /\ agent.executes = Cardinality(Invocations)
    /\ \A i \in LogEntries("start") :
          IF StartedAt(i)
          THEN /\ agent.log[i].outcome = "kept"
               /\ \E j \in 1..(i - 1) :
                     /\ agent.log[j].op = "start"
                     /\ agent.log[j].outcome = "built"
                     /\ agent.log[j].executor = agent.log[i].executor
          ELSE agent.log[i].outcome = "built"
    /\ agent.setups =
          Cardinality({i \in LogEntries("start") : ~StartedAt(i)})

C28_Witness ==
    /\ Len(agent.log) >= 4
    /\ agent.log[1].op = "start" /\ agent.log[1].outcome = "built"
    /\ agent.log[2].op = "start" /\ agent.log[2].outcome = "kept"
    /\ agent.log[3].op = "stop"
    /\ agent.log[4].op = "trigger" /\ agent.log[4].outcome = NotStarted
    /\ agent.executes = 0
    /\ agent.setups = 1

NodeIds == {nodes[i] : i \in DOMAIN nodes}

Successors(n) == {edges[i].target : i \in {k \in DOMAIN edges : edges[k].source = n}}

RECURSIVE ReachFrom(_, _)
ReachFrom(seen, k) ==
    IF k = 0 THEN seen
    ELSE ReachFrom(seen \cup UNION {Successors(n) : n \in seen}, k - 1)

\* the nodes reached from the nodes of start by following edges
Reachable(start_nodes) == ReachFrom(start_nodes, Len(edges))

\* C30: the graph is well-formed: validate() returns valid with no errors,
\* the terminal nodes have no outgoing edge, every node is reachable from
\* validate-input, and no node lies on a cycle.
C30_GraphWellFormed ==
    /\ \A i \in LogEntries("validate") : agent.log[i].outcome = "valid"
    /\ validate.valid
    /\ validate.errors = {}
    /\ \A t \in terminal_nodes : Successors(t) = {}
    /\ entry_node = "validate-input"
    /\ Reachable({entry_node}) = NodeIds
    /\ \A n \in NodeIds : n \notin Reachable(Successors(n))

C30_Witness ==
    /\ LogEntries("validate") # {}
    /\ LogEntries("start") # {}
    /\ \E i \in LogEntries("validate") :
          agent.log[i].outcome = "valid" /\ agent.log[i].executor > 0

\* the indicators of the action-item blocks of the stored payload
ItemIndicators ==
    LET at == {i \in 1..Len(Blocks) : Blocks[i].role = "action_item"}
    IN  {Blocks[i].emoji : i \in at}

PriorityIndicators == {"red_circle", "yellow_circle", "green_circle"}

\* C24: no pipeline run emits the neutral priority indicator: every
\* action-item block of a stored payload carries the indicator of high,
\* medium or low, the one of its item's priority.
C24_NoNeutralIndicator ==
    memory.slack_payload.tag = "val" =>
        /\ \A i \in 1..Len(Blocks) : Blocks[i].emoji # "white_circle"
        /\ ItemIndicators \subseteq PriorityIndicators
        /\ ParseOk =>
              ItemIndicators =
                  {CASE StoredItems[k]["priority"].s = "high" -> "red_circle"
                     [] StoredItems[k]["priority"].s = "medium" -> "yellow_circle"
                     [] StoredItems[k]["priority"].s = "low" -> "green_circle"
                     [] OTHER -> "none" : k \in 1..Len(StoredItems)}

C24_Witness ==
    /\ Formatted
    /\ Len(StoredItems) = 1
    /\ StoredItems[1]["priority"].s = "low"
    /\ ItemIndicators = {"green_circle"}

\* the schema object rebuilt from the stored report
Rebuilt == MeetingNotesOutput(memory.meeting_notes.v)

\* C25: after a successful parse neither format_slack_message nor
\* compile_final_output can fail: the schema object rebuilt from the dumped
\* report validates, equals the object the parser built and dumps to the
\* same report, and the run ends completed at compile-final-output.
C25_NoFailureAfterParse ==
    /\ ~Failed("format-slack-message")
    /\ ~Failed("compile-final-output")
    /\ ParseOk =>
          /\ memory.meeting_notes.tag = "val"
          /\ Rebuilt.ok
          /\ Rebuilt.notes = MeetingNotesOutput(Parsed.obj).notes
          /\ model_dump(Rebuilt.notes) = memory.meeting_notes.v
          /\ Stopped => run_state = "completed" /\ Compiled

C25_Witness ==
    /\ ParseOk
    /\ Compiled
    /\ run_state = "completed"
    /\ Len(GivenItems(Parsed.obj)) = 2
    /\ GivenItems(Parsed.obj)[1] = BareItem
    /\ GivenItems(Parsed.obj)[2] = GoodItem
    /\ Rebuilt.notes.action_items[1].priority = "medium"

\* the keys of the state bag other than validation_error
OtherKeys == DOMAIN memory \ {"validation_error"}

ValidateFailed == Failed("validate-input")

\* C26: a validate_input call that fails writes validation_error and
\* nothing else: validated_transcript, meeting_name, meeting_date,
\* slack_channel, llm_provider and every other key keep the value they had
\* before the call.
C26_FailureWritesOnlyError ==
    [][ValidateFailed' =>
          /\ \A k \in OtherKeys : memory'[k] = memory[k]
          /\ memory'.validation_error.tag = "val"
          /\ memory'.validation_error.v # NoMsg]_vars

C26_Witness ==
    /\ ValidateFailed
    /\ memory.validation_error.v.kind = "too_short"
    /\ memory.meeting_name = Val("")
    /\ memory.meeting_date = None("")
    /\ memory.llm_provider = Val(<<"G", "E", "M", "I", "N", "I">>)
    /\ memory.validated_transcript.tag = "absent"
    /\ \A k \in OtherKeys : memory[k] = input_data[k]

\* the delivery tool returned a response that reports ok
ToolAccepted == ToolReturned /\ tool_reply.response.ok

\* C27: a final output with the delivery flag true means the delivery tool's
\* response reported ok = true; a delivery the tool reports as a returned
\* {ok: false, error} result gives a delivery flag of false.
C27_FlagMeansAccepted ==
    Compiled =>
        /\ FinalOutput["slack_message_sent"] = JBool(TRUE) => ToolAccepted
        /\ (ToolReturned /\ ~tool_reply.response.ok)
              => FinalOutput["slack_message_sent"] = JBool(FALSE)

====
